---- MODULE Spec2Model ----
(***************************************************************************)
(* The trading engine of trade-algo-go: the five pipeline stages of        *)
(* TradingEngine, the two bounded channels between them, the portfolio     *)
(* they share under TradingEngine.mu, and the order checks of              *)
(* BaseStrategy (ValidateOrder, CalculateRisk).                            *)
(*                                                                         *)
(* decimal.Decimal values are integers counting thousandths (DecUnit):     *)
(* Add, Sub and Mul by an integer are exact, as in the library; Div rounds *)
(* half away from zero at the last place kept, as decimal.Div does at      *)
(* DivisionPrecision places (16 in the library, 3 in this model).          *)
(* Identifiers and timestamps (generateOrderID, time.Now) are left out:    *)
(* an order is named by its index in the heap `orders`.                    *)
(***************************************************************************)
EXTENDS Integers, Sequences, FiniteSets, TLC

\* ------------------------------------------------------------- bounds
\* Capacity of orderQueue and of tradeQueue (1000 each in NewTradingEngine).
OrderQueueCap == 2
TradeQueueCap == 2
\* Largest quantity of an order handed directly to a BaseStrategy method.
MaxQuantity == 3

\* ------------------------------------------------------------ decimals
DecUnit == 1000

Abs(x) == IF x < 0 THEN -x ELSE x

NewFromInt(n) == n * DecUnit

\* Decimal.Mul of a decimal by decimal.NewFromInt(n): exact.
MulInt(d, n) == d * n

\* Decimal.Mul of two decimals: exact in the library; here every product
\* taken (orderValue x 0.001 with whole-unit prices) is a whole number of
\* thousandths.
DecMul(d, d2) == (d * d2) \div DecUnit

\* Long division of r / m (0 <= r < m) to the places of `unit`, a power of
\* ten: << the digits as a number, the remainder >>.
RECURSIVE Places(_, _, _)
Places(r, m, unit) ==
    IF unit = 1 THEN <<0, r>>
    ELSE LET rest == Places((r * 10) % m, m, unit \div 10)
         IN  << ((r * 10) \div m) * (unit \div 10) + rest[1], rest[2] >>

\* Decimal.Div: the quotient rounded half away from zero at the last place.
DecDiv(d, d2) ==
    LET m == Abs(d2)
        f == Places(Abs(d) % m, m, DecUnit)
        q == (Abs(d) \div m) * DecUnit + f[1]
        mag == IF 2 * f[2] >= m THEN q + 1 ELSE q
    IN  IF (d < 0) # (d2 < 0) THEN -mag ELSE mag

\* ------------------------------------------------------------- models
OrderSideBuy == "buy"
OrderSideSell == "sell"
OrderStatusPending == "pending"
OrderStatusFilled == "filled"
OrderStatusCancelled == "cancelled"
OrderStatusRejected == "rejected"
OrderTypeMarket == "market"

Nil == "nil"
ErrInvalidQuantity == "invalid quantity"
ErrOrderTooSmall == "order too small"
ErrOrderTooLarge == "order too large"
ErrInsufficientFunds == "insufficient funds"
ErrInsufficientPosition == "insufficient position"
ErrPositionTooLarge == "position too large"
ErrPortfolioRiskExceeded == "portfolio risk exceeded"
ErrStrategyNotFound == "strategy not found"
ErrStrategyDisabled == "strategy is disabled"
ErrInvalidMarketData == "invalid market data"

\* ----------------------------------------------------- BaseStrategy
\* ValidateOrder as it would be with the size band's lower end exclusive.
ValidateOrder_InclusiveMin(config, order, pf) ==
    IF order.Quantity <= 0 THEN ErrInvalidQuantity
    ELSE LET orderValue == MulInt(order.Price, order.Quantity) IN
         IF orderValue <= config.MinOrderSize THEN ErrOrderTooSmall
         ELSE IF orderValue > config.MaxOrderSize THEN ErrOrderTooLarge
         ELSE IF order.Side = OrderSideBuy
              THEN IF pf.Cash < orderValue THEN ErrInsufficientFunds ELSE Nil
              ELSE IF \/ order.Symbol \notin DOMAIN pf.Positions
                      \/ pf.Positions[order.Symbol].Quantity < order.Quantity
                   THEN ErrInsufficientPosition
                   ELSE Nil

ValidateOrder(config, order, pf) ==
    IF order.Quantity <= 0 THEN ErrInvalidQuantity
    ELSE LET orderValue == MulInt(order.Price, order.Quantity) IN
         IF orderValue < config.MinOrderSize THEN ErrOrderTooSmall
         ELSE IF orderValue > config.MaxOrderSize THEN ErrOrderTooLarge
         ELSE IF order.Side = OrderSideBuy
              THEN IF pf.Cash < orderValue THEN ErrInsufficientFunds ELSE Nil
              ELSE IF \/ order.Symbol \notin DOMAIN pf.Positions
                      \/ pf.Positions[order.Symbol].Quantity < order.Quantity
                   THEN ErrInsufficientPosition
                   ELSE Nil

\* CalculateRisk as it would be with the limits themselves rejected.
CalculateRisk_InclusiveLimit(config, order, pf) ==
    LET orderValue == MulInt(order.Price, order.Quantity)
        portfolioValue == pf.TotalValue
    IN  IF portfolioValue = 0 THEN Nil
        ELSE LET positionRisk == DecDiv(orderValue, portfolioValue) IN
             IF positionRisk >= config.MaxPositionSize THEN ErrPositionTooLarge
             ELSE IF pf.TotalRisk + positionRisk >= config.MaxPortfolioRisk
                  THEN ErrPortfolioRiskExceeded
                  ELSE Nil

\* The error CalculateRisk returns (Nil: a RiskMetrics value is returned).
CalculateRisk(config, order, pf) ==
    LET orderValue == MulInt(order.Price, order.Quantity)
        portfolioValue == pf.TotalValue
    IN  IF portfolioValue = 0 THEN Nil
        ELSE LET positionRisk == DecDiv(orderValue, portfolioValue) IN
             IF positionRisk > config.MaxPositionSize THEN ErrPositionTooLarge
             ELSE IF pf.TotalRisk + positionRisk > config.MaxPortfolioRisk
                  THEN ErrPortfolioRiskExceeded
                  ELSE Nil

\* --------------------------------------------------------------- inputs
Symbols == {"AAPL"}

\* Prices the market feed publishes (UpdateMarketData), per symbol.
TickPrices == [AAPL |-> {NewFromInt(9)}]

InitialCash == NewFromInt(100)

StrategyIDs == {"s1"}

\* The StrategyConfig each registered strategy was built with: the fields
\* ValidateOrder and CalculateRisk read, CommissionRate and Enabled.
GetConfig(id) ==
    IF id = "s1"
    THEN [MinOrderSize |-> NewFromInt(10), MaxOrderSize |-> NewFromInt(40),
          MaxPositionSize |-> 300, MaxPortfolioRisk |-> 250,
          CommissionRate |-> 2, Enabled |-> TRUE]
    ELSE IF id = "s2"
    THEN [MinOrderSize |-> NewFromInt(10), MaxOrderSize |-> NewFromInt(40),
          MaxPositionSize |-> 1000, MaxPortfolioRisk |-> 1000,
          CommissionRate |-> 1, Enabled |-> TRUE]
    ELSE IF id = "s3"
    THEN [MinOrderSize |-> NewFromInt(9), MaxOrderSize |-> NewFromInt(40),
          MaxPositionSize |-> 1000, MaxPortfolioRisk |-> 1000,
          CommissionRate |-> 1, Enabled |-> TRUE]
    ELSE IF id = "s4"
    THEN [MinOrderSize |-> NewFromInt(9), MaxOrderSize |-> NewFromInt(40),
          MaxPositionSize |-> 1000, MaxPortfolioRisk |-> 1000,
          CommissionRate |-> 1, Enabled |-> TRUE]
    ELSE IF id = "e2e"
    THEN [MinOrderSize |-> NewFromInt(1000), MaxOrderSize |-> NewFromInt(20000),
          MaxPositionSize |-> 200, MaxPortfolioRisk |-> 150,
          CommissionRate |-> 1, Enabled |-> TRUE]
    ELSE [MinOrderSize |-> NewFromInt(10), MaxOrderSize |-> NewFromInt(40),
          MaxPositionSize |-> 300, MaxPortfolioRisk |-> 250,
          CommissionRate |-> 2, Enabled |-> FALSE]

IsEnabled(id) == GetConfig(id).Enabled

\* What a strategy's Execute may hand back as an AlgorithmResult.
Signal(action, symbol, quantity, price) ==
    [StrategyID |-> "s1", Action |-> action, Symbol |-> symbol, Quantity |-> quantity,
     Price |-> NewFromInt(price)]

\* The results the registered strategies return over a run, poll after poll:
\* one of these sequences, or a prefix of one.
\*   1. open a position, add to it at another price, sell the whole holding;
\*   2. open a position, sell part of it, sell the rest, open it again;
\*   3. sell with nothing held, buy beyond the risk budget, buy within it;
\*   4. (strategy s2, whose risk limits are 100%) three equal buys;
\*   5. (strategy e2e, main.go's limits with a MaxOrderSize of 20,000) one
\*      buy of 100 at 150;
\*   6. (strategy s3, whose risk limits are 100%) open a position of two,
\*      sell one unit above the purchase price and the other below it;
\*   7. (strategy s4, limits as s3) a buy of two, then results whose
\*      action is "hold", the empty string and "sell".
Scripts ==
    { << Signal("buy", "AAPL", 1, 10), Signal("buy", "AAPL", 2, 11), Signal("sell", "AAPL", 3, 10) >>,
      << Signal("buy", "AAPL", 2, 11), Signal("sell", "AAPL", 1, 11), Signal("sell", "AAPL", 1, 11),
         Signal("buy", "AAPL", 1, 10) >>,
      << Signal("sell", "AAPL", 1, 11), Signal("buy", "AAPL", 3, 10), Signal("buy", "AAPL", 1, 10) >>,
      [k \in 1..3 |-> [Signal("buy", "AAPL", 1, 10) EXCEPT !.StrategyID = "s2"]],
      << [Signal("buy", "AAPL", 100, 150) EXCEPT !.StrategyID = "e2e"] >>,
      << [Signal("buy", "AAPL", 2, 10) EXCEPT !.StrategyID = "s3"],
         [Signal("sell", "AAPL", 1, 12) EXCEPT !.StrategyID = "s3"],
         [Signal("sell", "AAPL", 1, 9) EXCEPT !.StrategyID = "s3"] >>,
      << [Signal("buy", "AAPL", 2, 10) EXCEPT !.StrategyID = "s4"],
         [Signal("hold", "AAPL", 1, 11) EXCEPT !.StrategyID = "s4"],
         [Signal("", "AAPL", 1, 12) EXCEPT !.StrategyID = "s4"],
         [Signal("sell", "AAPL", 1, 10) EXCEPT !.StrategyID = "s4"] >> }

\* A Go map with no keys.
EmptyMap == [x \in {} |-> 0]

\* ---------------------------------------------------------------- state
VARIABLES
    portfolio,     \* e.portfolio: the models.Portfolio the engine owns
    strategies,    \* e.strategies: the ids registered
    marketData,    \* e.marketData: symbol -> latest price
    orderQueue,    \* e.orderQueue: pointers (heap indexes) to orders
    tradeQueue,    \* e.tradeQueue: trades
    orders,        \* every models.Order allocated so far
    mu,            \* e.mu: "free", or the stage holding it across a blocking send
    running,       \* e.running
    stopChan,      \* e.stopChan: "open" or "closed"
    ctxDone,       \* the Start context is done
    pc,            \* where each stage goroutine is
    opOrder,       \* orderProcessor: the order received (0: none)
    opTrade,       \* executeOrder: the trade built, not yet sent
    tpTrade,       \* tradeProcessor: the trade received, not yet appended
    sePending,     \* executeStrategies: the snapshot's strategies still to run
    seOrder,       \* createOrderFromResult: the order being sent (0: none)
    opErr,         \* processOrder: the error it logged for the last order (Nil: filled)
    panicked,      \* a goroutine panicked: the process is gone
    call           \* what runs beside the engine's stages: a direct call of a strategy
                   \* method (arguments and result), or the market simulator's state

vars == <<portfolio, strategies, marketData, orderQueue, tradeQueue, orders, mu,
          running, stopChan, ctxDone, pc, opOrder, opTrade, tpTrade, sePending,
          seOrder, opErr, panicked, call>>

Stages == {"orderProcessor", "tradeProcessor", "strategyExecutor", "riskManager",
           "portfolioUpdater"}

NewTradingEngine(initialCash) ==
    /\ portfolio = [Cash |-> initialCash, Positions |-> EmptyMap, TotalValue |-> initialCash,
                    UnrealizedPnL |-> 0, RealizedPnL |-> 0, TotalRisk |-> 0,
                    TradeHistory |-> <<>>, OrderHistory |-> <<>>]
    /\ strategies = {}
    /\ marketData = EmptyMap
    /\ orderQueue = <<>>
    /\ tradeQueue = <<>>
    /\ orders = <<>>
    /\ mu = "free"
    /\ running = FALSE
    /\ stopChan = "open"
    /\ ctxDone = FALSE
    /\ pc = [s \in Stages |-> "idle"]
    /\ opOrder = 0
    /\ opTrade = <<>>
    /\ tpTrade = <<>>
    /\ sePending = <<>>
    /\ seOrder = 0
    /\ opErr = Nil
    /\ panicked = FALSE

NoCall == [fn |-> "none"]

Init == NewTradingEngine(InitialCash) /\ call = NoCall

\* ------------------------------------------------------------- helpers
\* m[k] = v for a Go map kept as a function on its key set.
MapPut(m, k, v) == [x \in (DOMAIN m) \cup {k} |-> IF x = k THEN v ELSE m[x]]

\* delete(m, k)
MapDelete(m, k) == [x \in (DOMAIN m) \ {k} |-> m[x]]

RECURSIVE SumOver(_, _)
SumOver(f, S) ==
    IF S = {} THEN 0
    ELSE LET x == CHOOSE y \in S : TRUE IN f[x] + SumOver(f, S \ {x})

\* The orders in which range over a Go map may visit the key set S.
RECURSIVE Orderings(_)
Orderings(S) ==
    IF S = {} THEN {<<>>}
    ELSE UNION { { <<x>> \o t : t \in Orderings(S \ {x}) } : x \in S }

\* A stage's select may take the Done or the stopChan case.
StopSignalled == ctxDone \/ stopChan = "closed"

\* A stage goroutine can take a step: it is where `at` says, and the process lives.
At(stage, at) == ~panicked /\ pc[stage] = at

\* --------------------------------------------------- position accounting
\* updatePosition as it would be without the delete of a flat position.
updatePosition_NoDelete(positions, symbol, quantity, price) ==
    LET exists == symbol \in DOMAIN positions
        position == IF exists THEN positions[symbol]
                    ELSE [Quantity |-> 0, AveragePrice |-> 0, CurrentPrice |-> price,
                          UnrealizedPnL |-> 0, RealizedPnL |-> 0, MarketValue |-> 0]
    IN  IF quantity > 0
        THEN LET totalCost == MulInt(position.AveragePrice, position.Quantity)
                              + MulInt(price, quantity)
                 totalQuantity == position.Quantity + quantity
             IN  MapPut(positions, symbol,
                        [position EXCEPT !.AveragePrice = DecDiv(totalCost, NewFromInt(totalQuantity)),
                                         !.Quantity = totalQuantity,
                                         !.CurrentPrice = price])
        ELSE MapPut(positions, symbol,
                    [position EXCEPT !.Quantity = position.Quantity + quantity,
                                     !.CurrentPrice = price])

\* updatePosition as it would be if only a negative quantity removed the
\* position.
updatePosition_KeepFlat(positions, symbol, quantity, price) ==
    LET exists == symbol \in DOMAIN positions
        position == IF exists THEN positions[symbol]
                    ELSE [Quantity |-> 0, AveragePrice |-> 0, CurrentPrice |-> price,
                          UnrealizedPnL |-> 0, RealizedPnL |-> 0, MarketValue |-> 0]
    IN  IF quantity > 0
        THEN LET totalCost == MulInt(position.AveragePrice, position.Quantity)
                              + MulInt(price, quantity)
                 totalQuantity == position.Quantity + quantity
             IN  MapPut(positions, symbol,
                        [position EXCEPT !.AveragePrice = DecDiv(totalCost, NewFromInt(totalQuantity)),
                                         !.Quantity = totalQuantity,
                                         !.CurrentPrice = price])
        ELSE IF position.Quantity + quantity < 0
             THEN MapDelete(positions, symbol)
             ELSE MapPut(positions, symbol,
                         [position EXCEPT !.Quantity = position.Quantity + quantity,
                                          !.CurrentPrice = price])

\* updatePosition: the positions map after the call.
updatePosition(positions, symbol, quantity, price) ==
    LET exists == symbol \in DOMAIN positions
        position == IF exists THEN positions[symbol]
                    ELSE [Quantity |-> 0, AveragePrice |-> 0, CurrentPrice |-> price,
                          UnrealizedPnL |-> 0, RealizedPnL |-> 0, MarketValue |-> 0]
    IN  IF quantity > 0
        THEN LET totalCost == MulInt(position.AveragePrice, position.Quantity)
                              + MulInt(price, quantity)
                 totalQuantity == position.Quantity + quantity
             IN  MapPut(positions, symbol,
                        [position EXCEPT !.AveragePrice = DecDiv(totalCost, NewFromInt(totalQuantity)),
                                         !.Quantity = totalQuantity,
                                         !.CurrentPrice = price])
        ELSE IF position.Quantity + quantity <= 0
             THEN MapDelete(positions, symbol)
             ELSE MapPut(positions, symbol,
                         [position EXCEPT !.Quantity = position.Quantity + quantity,
                                          !.CurrentPrice = price])

\* The engine's commission rate, decimal.NewFromFloat(0.001).
EngineCommissionRate == 1

\* The commission as it would be at the owning strategy's CommissionRate.
Commission_StrategyRate(order) ==
    DecMul(MulInt(order.Price, order.Quantity), GetConfig(order.StrategyID).CommissionRate)

\* executeOrder's commission for an order.
Commission(order) == DecMul(MulInt(order.Price, order.Quantity), EngineCommissionRate)

\* The models.Trade executeOrder builds from an order.
TradeOf(id, order) ==
    [OrderID |-> id, Symbol |-> order.Symbol, Side |-> order.Side,
     Quantity |-> order.Quantity, Price |-> order.Price,
     Commission |-> Commission(order), StrategyID |-> order.StrategyID]

\* executeOrder as it would be if a sell credited its gain over the
\* average price to the portfolio's RealizedPnL.
executeOrder_CreditsRealized(pf, order) ==
    LET orderValue == MulInt(order.Price, order.Quantity)
        commission == Commission(order)
    IN  IF order.Side = OrderSideBuy
        THEN [pf EXCEPT !.Cash = pf.Cash - orderValue - commission,
                        !.Positions = updatePosition(pf.Positions, order.Symbol,
                                                     order.Quantity, order.Price)]
        ELSE [pf EXCEPT !.Cash = pf.Cash + orderValue - commission,
                        !.RealizedPnL = pf.RealizedPnL
                            + MulInt(order.Price - pf.Positions[order.Symbol].AveragePrice,
                                     order.Quantity),
                        !.Positions = updatePosition(pf.Positions, order.Symbol,
                                                     -order.Quantity, order.Price)]

\* executeOrder as it would be if a fill added its share of the portfolio's
\* value to the portfolio's TotalRisk.
executeOrder_AccumulatesRisk(pf, order) ==
    LET orderValue == MulInt(order.Price, order.Quantity)
        commission == Commission(order)
        risk == IF pf.TotalValue = 0 THEN 0 ELSE DecDiv(orderValue, pf.TotalValue)
    IN  IF order.Side = OrderSideBuy
        THEN [pf EXCEPT !.Cash = pf.Cash - orderValue - commission,
                        !.TotalRisk = pf.TotalRisk + risk,
                        !.Positions = updatePosition(pf.Positions, order.Symbol,
                                                     order.Quantity, order.Price)]
        ELSE [pf EXCEPT !.Cash = pf.Cash + orderValue - commission,
                        !.Positions = updatePosition(pf.Positions, order.Symbol,
                                                     -order.Quantity, order.Price)]

\* executeOrder up to its send on tradeQueue: the portfolio after the cash
\* and position update.
executeOrder(pf, order) ==
    LET orderValue == MulInt(order.Price, order.Quantity)
        commission == Commission(order)
    IN  IF order.Side = OrderSideBuy
        THEN [pf EXCEPT !.Cash = pf.Cash - orderValue - commission,
                        !.Positions = updatePosition(pf.Positions, order.Symbol,
                                                     order.Quantity, order.Price)]
        ELSE [pf EXCEPT !.Cash = pf.Cash + orderValue - commission,
                        !.Positions = updatePosition(pf.Positions, order.Symbol,
                                                     -order.Quantity, order.Price)]

\* processOrder's verdict as it would be without the lookup of the order's
\* strategy in the registry.
Verdict_NoRegistryCheck(order) ==
    LET err == ValidateOrder(GetConfig(order.StrategyID), order, portfolio) IN
    IF err # Nil THEN err
    ELSE CalculateRisk(GetConfig(order.StrategyID), order, portfolio)

\* processOrder's verdict on an order: Nil (it fills) or why it is rejected.
Verdict(order) ==
    IF order.StrategyID \notin strategies THEN ErrStrategyNotFound
    ELSE LET err == ValidateOrder(GetConfig(order.StrategyID), order, portfolio) IN
         IF err # Nil THEN err
         ELSE CalculateRisk(GetConfig(order.StrategyID), order, portfolio)

\* ------------------------------------------------ engine control surface
AddStrategy(id) ==
    /\ ~panicked /\ mu = "free"
    /\ strategies' = strategies \cup {id}
    /\ UNCHANGED <<portfolio, marketData, orderQueue, tradeQueue, orders, mu, running,
                   stopChan, ctxDone, pc, opOrder, opTrade, tpTrade, sePending, seOrder,
                   panicked, opErr, call>>

RemoveStrategy(id) ==
    /\ ~panicked /\ mu = "free"
    /\ strategies' = strategies \ {id}
    /\ UNCHANGED <<portfolio, marketData, orderQueue, tradeQueue, orders, mu, running,
                   stopChan, ctxDone, pc, opOrder, opTrade, tpTrade, sePending, seOrder,
                   panicked, opErr, call>>

UpdateMarketData(symbol, price) ==
    /\ ~panicked /\ mu = "free"
    /\ marketData' = MapPut(marketData, symbol, price)
    /\ UNCHANGED <<portfolio, strategies, orderQueue, tradeQueue, orders, mu, running,
                   stopChan, ctxDone, pc, opOrder, opTrade, tpTrade, sePending, seOrder,
                   panicked, opErr, call>>

\* Start on an engine that is not running launches the five stages. The
\* environment starts an engine once (main.go): the stages are still idle.
Start ==
    /\ ~panicked /\ mu = "free"
    /\ ~running
    /\ \A s \in Stages : pc[s] = "idle"
    /\ running' = TRUE
    /\ pc' = [s \in Stages |-> "select"]
    /\ UNCHANGED <<portfolio, strategies, marketData, orderQueue, tradeQueue, orders, mu,
                   stopChan, ctxDone, opOrder, opTrade, tpTrade, sePending, seOrder,
                   panicked, opErr, call>>

Stop ==
    /\ ~panicked /\ mu = "free"
    /\ running
    /\ running' = FALSE
    /\ stopChan' = "closed"
    /\ UNCHANGED <<portfolio, strategies, marketData, orderQueue, tradeQueue, orders, mu,
                   ctxDone, pc, opOrder, opTrade, tpTrade, sePending, seOrder, panicked, opErr, call>>

\* The context handed to Start reaches its deadline or is cancelled.
CtxDone ==
    /\ ~panicked
    /\ running /\ ~ctxDone
    /\ ctxDone' = TRUE
    /\ UNCHANGED <<portfolio, strategies, marketData, orderQueue, tradeQueue, orders, mu,
                   running, stopChan, pc, opOrder, opTrade, tpTrade, sePending, seOrder,
                   panicked, opErr, call>>

\* A stage's select takes <-ctx.Done() or <-e.stopChan and the goroutine returns.
StageExit(stage) ==
    /\ At(stage, "select")
    /\ StopSignalled
    /\ pc' = [pc EXCEPT ![stage] = "exited"]
    /\ UNCHANGED <<portfolio, strategies, marketData, orderQueue, tradeQueue, orders, mu,
                   running, stopChan, ctxDone, opOrder, opTrade, tpTrade, sePending,
                   seOrder, opErr, panicked, call>>

\* ------------------------------------------------------- order intake
\* orderProcessor's receive as it would be if the channel handed out its
\* newest element.
OrderReceive_LIFO ==
    /\ At("orderProcessor", "select")
    /\ orderQueue # <<>>
    /\ opOrder' = orderQueue[Len(orderQueue)]
    /\ orderQueue' = SubSeq(orderQueue, 1, Len(orderQueue) - 1)
    /\ pc' = [pc EXCEPT !["orderProcessor"] = "lock"]
    /\ UNCHANGED <<portfolio, strategies, marketData, tradeQueue, orders, mu, running,
                   stopChan, ctxDone, opTrade, tpTrade, sePending, seOrder, panicked, opErr, call>>

\* processOrder as it would be if the lock were released before
\* executeOrder's send and the append to order history.
processOrder_UnlockEarly ==
    /\ At("orderProcessor", "lock")
    /\ mu = "free"
    /\ LET order == orders[opOrder]
           err == Verdict(order)
       IN  IF err # Nil
           THEN /\ orders' = [orders EXCEPT ![opOrder].Status = OrderStatusRejected]
                /\ opErr' = err
                /\ opOrder' = 0
                /\ pc' = [pc EXCEPT !["orderProcessor"] = "select"]
                /\ UNCHANGED <<portfolio, mu, opTrade>>
           ELSE /\ orders' = [orders EXCEPT ![opOrder].Status = OrderStatusFilled]
                /\ opErr' = Nil
                /\ portfolio' = executeOrder(portfolio, order)
                /\ opTrade' = <<TradeOf(opOrder, order)>>
                /\ mu' = "free"
                /\ pc' = [pc EXCEPT !["orderProcessor"] = "send"]
                /\ UNCHANGED opOrder
    /\ UNCHANGED <<strategies, marketData, orderQueue, tradeQueue, running, stopChan,
                   ctxDone, tpTrade, sePending, seOrder, panicked, call>>

\* processOrder as it would be if a refused order were marked cancelled.
processOrder_Cancels ==
    /\ At("orderProcessor", "lock")
    /\ mu = "free"
    /\ LET order == orders[opOrder]
           err == Verdict(order)
       IN  IF err # Nil
           THEN /\ orders' = [orders EXCEPT ![opOrder].Status = OrderStatusCancelled]
                /\ opErr' = err
                /\ opOrder' = 0
                /\ pc' = [pc EXCEPT !["orderProcessor"] = "select"]
                /\ UNCHANGED <<portfolio, mu, opTrade>>
           ELSE /\ orders' = [orders EXCEPT ![opOrder].Status = OrderStatusFilled]
                /\ opErr' = Nil
                /\ portfolio' = executeOrder(portfolio, order)
                /\ opTrade' = <<TradeOf(opOrder, order)>>
                /\ mu' = "orderProcessor"
                /\ pc' = [pc EXCEPT !["orderProcessor"] = "send"]
                /\ UNCHANGED opOrder
    /\ UNCHANGED <<strategies, marketData, orderQueue, tradeQueue, running, stopChan,
                   ctxDone, tpTrade, sePending, seOrder, panicked, call>>

\* processOrder as it would be if the order were executed before the risk
\* check refused it.
processOrder_ExecuteFirst ==
    /\ At("orderProcessor", "lock")
    /\ mu = "free"
    /\ LET order == orders[opOrder]
           err == Verdict(order)
       IN  IF err # Nil
           THEN /\ orders' = [orders EXCEPT ![opOrder].Status = OrderStatusRejected]
                /\ opErr' = err
                /\ opOrder' = 0
                /\ pc' = [pc EXCEPT !["orderProcessor"] = "select"]
                /\ portfolio' = IF err \in {ErrPositionTooLarge, ErrPortfolioRiskExceeded}
                                THEN executeOrder(portfolio, order)
                                ELSE portfolio
                /\ UNCHANGED <<mu, opTrade>>
           ELSE /\ orders' = [orders EXCEPT ![opOrder].Status = OrderStatusFilled]
                /\ opErr' = Nil
                /\ portfolio' = executeOrder(portfolio, order)
                /\ opTrade' = <<TradeOf(opOrder, order)>>
                /\ mu' = "orderProcessor"
                /\ pc' = [pc EXCEPT !["orderProcessor"] = "send"]
                /\ UNCHANGED opOrder
    /\ UNCHANGED <<strategies, marketData, orderQueue, tradeQueue, running, stopChan,
                   ctxDone, tpTrade, sePending, seOrder, panicked, call>>

\* executeOrder's send as it would be if it were a non-blocking send that
\* gives the trade up when the channel is full.
SendTrade_DropWhenFull ==
    /\ At("orderProcessor", "send")
    /\ tradeQueue' = IF Len(tradeQueue) < TradeQueueCap
                     THEN Append(tradeQueue, opTrade[1])
                     ELSE tradeQueue
    /\ portfolio' = [portfolio EXCEPT !.OrderHistory = Append(@, opOrder)]
    /\ opTrade' = <<>>
    /\ opOrder' = 0
    /\ mu' = "free"
    /\ pc' = [pc EXCEPT !["orderProcessor"] = "select"]
    /\ UNCHANGED <<strategies, marketData, orderQueue, orders, running, stopChan, ctxDone,
                   tpTrade, sePending, seOrder, panicked, opErr, call>>

\* orderProcessor's select takes order := <-e.orderQueue.
OrderReceive ==
    /\ At("orderProcessor", "select")
    /\ orderQueue # <<>>
    /\ opOrder' = Head(orderQueue)
    /\ orderQueue' = Tail(orderQueue)
    /\ pc' = [pc EXCEPT !["orderProcessor"] = "lock"]
    /\ UNCHANGED <<portfolio, strategies, marketData, tradeQueue, orders, mu, running,
                   stopChan, ctxDone, opTrade, tpTrade, sePending, seOrder, panicked, opErr, call>>

\* processOrder from e.mu.Lock(): a rejected order returns at once (the
\* deferred Unlock runs); a filled one has its cash and position updated
\* and stands, the lock held, at executeOrder's send on tradeQueue.
processOrder ==
    /\ At("orderProcessor", "lock")
    /\ mu = "free"
    /\ LET order == orders[opOrder]
           err == Verdict(order)
       IN  IF err # Nil
           THEN /\ orders' = [orders EXCEPT ![opOrder].Status = OrderStatusRejected]
                /\ opErr' = err
                /\ opOrder' = 0
                /\ pc' = [pc EXCEPT !["orderProcessor"] = "select"]
                /\ UNCHANGED <<portfolio, mu, opTrade>>
           ELSE /\ orders' = [orders EXCEPT ![opOrder].Status = OrderStatusFilled]
                /\ opErr' = Nil
                /\ portfolio' = executeOrder(portfolio, order)
                /\ opTrade' = <<TradeOf(opOrder, order)>>
                /\ mu' = "orderProcessor"
                /\ pc' = [pc EXCEPT !["orderProcessor"] = "send"]
                /\ UNCHANGED opOrder
    /\ UNCHANGED <<strategies, marketData, orderQueue, tradeQueue, running, stopChan,
                   ctxDone, tpTrade, sePending, seOrder, panicked, call>>

\* e.tradeQueue <- trade completes (the channel has room), processOrder
\* appends the order to OrderHistory and returns, unlocking.
SendTrade ==
    /\ At("orderProcessor", "send")
    /\ Len(tradeQueue) < TradeQueueCap
    /\ tradeQueue' = Append(tradeQueue, opTrade[1])
    /\ portfolio' = [portfolio EXCEPT !.OrderHistory = Append(@, opOrder)]
    /\ opTrade' = <<>>
    /\ opOrder' = 0
    /\ mu' = "free"
    /\ pc' = [pc EXCEPT !["orderProcessor"] = "select"]
    /\ UNCHANGED <<strategies, marketData, orderQueue, orders, running, stopChan, ctxDone,
                   tpTrade, sePending, seOrder, panicked, opErr, call>>

\* --------------------------------------------------- trade settlement
\* tradeProcessor's select takes trade := <-e.tradeQueue.
TradeReceive ==
    /\ At("tradeProcessor", "select")
    /\ tradeQueue # <<>>
    /\ tpTrade' = <<Head(tradeQueue)>>
    /\ tradeQueue' = Tail(tradeQueue)
    /\ pc' = [pc EXCEPT !["tradeProcessor"] = "lock"]
    /\ UNCHANGED <<portfolio, strategies, marketData, orderQueue, orders, mu, running,
                   stopChan, ctxDone, opOrder, opTrade, sePending, seOrder, panicked, opErr, call>>

\* processTrade as it would be if it logged the trade without appending
\* it to TradeHistory.
processTrade_Discards ==
    /\ At("tradeProcessor", "lock")
    /\ mu = "free"
    /\ tpTrade' = <<>>
    /\ pc' = [pc EXCEPT !["tradeProcessor"] = "select"]
    /\ UNCHANGED <<portfolio, strategies, marketData, orderQueue, tradeQueue, orders, mu,
                   running, stopChan, ctxDone, opOrder, opTrade, sePending, seOrder,
                   panicked, opErr, call>>

\* processTrade from e.mu.Lock(): the trade is appended to TradeHistory.
processTrade ==
    /\ At("tradeProcessor", "lock")
    /\ mu = "free"
    /\ portfolio' = [portfolio EXCEPT !.TradeHistory = Append(@, tpTrade[1])]
    /\ tpTrade' = <<>>
    /\ pc' = [pc EXCEPT !["tradeProcessor"] = "select"]
    /\ UNCHANGED <<strategies, marketData, orderQueue, tradeQueue, orders, mu, running,
                   stopChan, ctxDone, opOrder, opTrade, sePending, seOrder, panicked, opErr, call>>

\* ---------------------------------------------------- strategy polling
\* strategyExecutor's ticker fires; executeStrategies copies the registry
\* under RLock, in the order range visits the map.
executeStrategies ==
    /\ At("strategyExecutor", "select")
    /\ mu = "free"
    /\ \E snapshot \in Orderings(strategies) :
          /\ sePending' = snapshot
          /\ pc' = [pc EXCEPT !["strategyExecutor"] =
                                  IF snapshot = <<>> THEN "select" ELSE "iter"]
    /\ UNCHANGED <<portfolio, strategies, marketData, orderQueue, tradeQueue, orders, mu,
                   running, stopChan, ctxDone, opOrder, opTrade, tpTrade, seOrder, panicked, opErr, call>>

\* Where executeStrategies' loop stands once `rest` is left to run.
LoopAt(rest) == IF rest = <<>> THEN "select" ELSE "iter"

\* createOrderFromResult as it would be if only the action "sell" gave a
\* sell order.
createOrderFromResult_SellOnly(result, strategyID) ==
    [Symbol |-> result.Symbol,
     Side |-> IF result.Action = "sell" THEN OrderSideSell ELSE OrderSideBuy,
     Type |-> OrderTypeMarket,
     Quantity |-> result.Quantity,
     Price |-> result.Price,
     Status |-> OrderStatusPending,
     StrategyID |-> result.StrategyID]

\* The models.Order createOrderFromResult allocates for a result.
createOrderFromResult(result, strategyID) ==
    [Symbol |-> result.Symbol,
     Side |-> IF result.Action = "buy" THEN OrderSideBuy ELSE OrderSideSell,
     Type |-> OrderTypeMarket,
     Quantity |-> result.Quantity,
     Price |-> result.Price,
     Status |-> OrderStatusPending,
     StrategyID |-> result.StrategyID]

\* One turn of executeStrategies' loop where no order results: the strategy
\* is disabled, or its Execute returns an error, or a nil result.
StrategySkip ==
    /\ At("strategyExecutor", "iter")
    /\ sePending' = Tail(sePending)
    /\ pc' = [pc EXCEPT !["strategyExecutor"] = LoopAt(Tail(sePending))]
    /\ UNCHANGED <<portfolio, strategies, marketData, orderQueue, tradeQueue, orders, mu,
                   running, stopChan, ctxDone, opOrder, opTrade, tpTrade, seOrder, panicked, opErr, call>>

\* The results Execute may return next: those that continue a script from
\* the orders created so far.
NextResults ==
    { sc[Len(orders) + 1] :
        sc \in { x \in Scripts :
                  /\ Len(x) > Len(orders)
                  /\ \A i \in 1..Len(orders) :
                        createOrderFromResult(x[i], x[i].StrategyID)
                          = [orders[i] EXCEPT !.Status = OrderStatusPending] } }

\* One turn where the enabled strategy's Execute returns a result:
\* createOrderFromResult allocates the order and reaches its send.
StrategySignal ==
    /\ At("strategyExecutor", "iter")
    /\ IsEnabled(Head(sePending))
    /\ \E result \in NextResults :
          /\ result.StrategyID = Head(sePending)
          /\ orders' = Append(orders, createOrderFromResult(result, Head(sePending)))
    /\ seOrder' = Len(orders) + 1
    /\ sePending' = Tail(sePending)
    /\ pc' = [pc EXCEPT !["strategyExecutor"] = "send"]
    /\ UNCHANGED <<portfolio, strategies, marketData, orderQueue, tradeQueue, mu, running,
                   stopChan, ctxDone, opOrder, opTrade, tpTrade, panicked, opErr, call>>

\* createOrderFromResult's send as it would be if it were a non-blocking
\* send that gives the order up when the channel is full.
SendOrder_DropWhenFull ==
    /\ At("strategyExecutor", "send")
    /\ orderQueue' = IF Len(orderQueue) < OrderQueueCap
                     THEN Append(orderQueue, seOrder)
                     ELSE orderQueue
    /\ seOrder' = 0
    /\ pc' = [pc EXCEPT !["strategyExecutor"] = LoopAt(sePending)]
    /\ UNCHANGED <<portfolio, strategies, marketData, tradeQueue, orders, mu, running,
                   stopChan, ctxDone, opOrder, opTrade, tpTrade, sePending, panicked, opErr, call>>

\* e.orderQueue <- order completes: the channel has room.
SendOrder ==
    /\ At("strategyExecutor", "send")
    /\ Len(orderQueue) < OrderQueueCap
    /\ orderQueue' = Append(orderQueue, seOrder)
    /\ seOrder' = 0
    /\ pc' = [pc EXCEPT !["strategyExecutor"] = LoopAt(sePending)]
    /\ UNCHANGED <<portfolio, strategies, marketData, tradeQueue, orders, mu, running,
                   stopChan, ctxDone, opOrder, opTrade, tpTrade, sePending, panicked, opErr, call>>

\* ------------------------------------------------------------ valuation
\* A position as updatePortfolio would leave it if it valued the quantity
\* at the price already on the position, not at the tick's.
Revalued_AtPositionPrice(position, price) ==
    [position EXCEPT !.MarketValue = MulInt(position.CurrentPrice, position.Quantity),
                     !.UnrealizedPnL = MulInt(position.CurrentPrice - position.AveragePrice,
                                              position.Quantity),
                     !.CurrentPrice = price]

\* A position as updatePortfolio leaves it.
Revalued(position, price) ==
    [position EXCEPT !.CurrentPrice = price,
                     !.MarketValue = MulInt(price, position.Quantity),
                     !.UnrealizedPnL = MulInt(price - position.AveragePrice, position.Quantity)]

\* updatePortfolio as it would be if the total were the cash alone.
updatePortfolio_CashOnly ==
    /\ At("portfolioUpdater", "select")
    /\ mu = "free"
    /\ LET priced == (DOMAIN portfolio.Positions) \cap (DOMAIN marketData)
           positions == [sym \in DOMAIN portfolio.Positions |->
                            IF sym \in priced
                            THEN Revalued(portfolio.Positions[sym], marketData[sym])
                            ELSE portfolio.Positions[sym]]
           pnl == [sym \in priced |-> positions[sym].UnrealizedPnL]
       IN  portfolio' = [portfolio EXCEPT !.Positions = positions,
                                          !.TotalValue = portfolio.Cash,
                                          !.UnrealizedPnL = SumOver(pnl, priced)]
    /\ UNCHANGED <<strategies, marketData, orderQueue, tradeQueue, orders, mu, running,
                   stopChan, ctxDone, pc, opOrder, opTrade, tpTrade, sePending, seOrder,
                   panicked, opErr, call>>

\* portfolioUpdater's ticker fires: updatePortfolio.
updatePortfolio ==
    /\ At("portfolioUpdater", "select")
    /\ mu = "free"
    /\ LET priced == (DOMAIN portfolio.Positions) \cap (DOMAIN marketData)
           positions == [sym \in DOMAIN portfolio.Positions |->
                            IF sym \in priced
                            THEN Revalued(portfolio.Positions[sym], marketData[sym])
                            ELSE portfolio.Positions[sym]]
           value == [sym \in priced |-> positions[sym].MarketValue]
           pnl == [sym \in priced |-> positions[sym].UnrealizedPnL]
       IN  portfolio' = [portfolio EXCEPT !.Positions = positions,
                                          !.TotalValue = portfolio.Cash + SumOver(value, priced),
                                          !.UnrealizedPnL = SumOver(pnl, priced)]
    /\ UNCHANGED <<strategies, marketData, orderQueue, tradeQueue, orders, mu, running,
                   stopChan, ctxDone, pc, opOrder, opTrade, tpTrade, sePending, seOrder,
                   panicked, opErr, call>>

\* ----------------------------------------------------------- risk sweep
\* riskManager's ticker fires: manageRisk. UnrealizedPnL.Div(MarketValue)
\* panics on a zero MarketValue (decimal division by 0), and no goroutine
\* of the engine recovers.
manageRisk ==
    /\ At("riskManager", "select")
    /\ mu = "free"
    /\ panicked' = \E sym \in DOMAIN portfolio.Positions :
                      /\ portfolio.Positions[sym].Quantity > 0
                      /\ portfolio.Positions[sym].MarketValue = 0
    /\ UNCHANGED <<portfolio, strategies, marketData, orderQueue, tradeQueue, orders, mu,
                   running, stopChan, ctxDone, pc, opOrder, opTrade, tpTrade, sePending,
                   seOrder, opErr, call>>

\* -------------------------------------------------------- specification
Next ==
    \/ \E id \in StrategyIDs : AddStrategy(id)
    \/ \E id \in StrategyIDs : RemoveStrategy(id)
    \/ \E sym \in Symbols : \E price \in TickPrices[sym] : UpdateMarketData(sym, price)
    \/ Start
    \/ Stop
    \/ CtxDone
    \/ \E stage \in Stages : StageExit(stage)
    \/ OrderReceive
    \/ processOrder
    \/ SendTrade
    \/ TradeReceive
    \/ processTrade
    \/ executeStrategies
    \/ StrategySkip
    \/ StrategySignal
    \/ SendOrder
    \/ updatePortfolio
    \/ manageRisk

Spec == Init /\ [][Next]_vars

\* ------------------------------------- direct calls of BaseStrategy
\* ValidateOrder and CalculateRisk called on their own (as the unit tests
\* do): the arguments are drawn at the start, one action makes the call.
CallQuantities == (-1)..MaxQuantity

ValidateCalls ==
    [fn : {"ValidateOrder"}, done : {FALSE}, result : {Nil},
     config : [MinOrderSize : {0, NewFromInt(10), NewFromInt(20)},
               MaxOrderSize : {NewFromInt(20), NewFromInt(40)}],
     order : [Symbol : {"AAPL"}, Side : {OrderSideBuy, OrderSideSell},
              Quantity : CallQuantities,
              Price : {NewFromInt(-10), 0, NewFromInt(10), NewFromInt(20)}],
     pf : [Cash : {0, NewFromInt(20), NewFromInt(100)},
           Positions : {EmptyMap} \cup
                       { [sym \in {held} |-> [Quantity |-> q]] :
                           held \in {"AAPL", "MSFT"}, q \in 1..2 }]]

RiskCalls ==
    [fn : {"CalculateRisk"}, done : {FALSE}, result : {Nil},
     config : [MaxPositionSize : {200, 300}, MaxPortfolioRisk : {150, 250}],
     order : [Quantity : 1..MaxQuantity,
              Price : {NewFromInt(10), NewFromInt(15), NewFromInt(20), 20100,
                       NewFromInt(30), 30200}],
     pf : [TotalValue : {0, NewFromInt(100), NewFromInt(200), NewFromInt(-100)},
           TotalRisk : {0, 50, 100}]]

CallInit == NewTradingEngine(InitialCash) /\ call \in ValidateCalls \cup RiskCalls

CallValidateOrder ==
    /\ call.fn = "ValidateOrder" /\ ~call.done
    /\ call' = [call EXCEPT !.done = TRUE,
                            !.result = ValidateOrder(call.config, call.order, call.pf)]
    /\ UNCHANGED <<portfolio, strategies, marketData, orderQueue, tradeQueue, orders, mu,
                   running, stopChan, ctxDone, pc, opOrder, opTrade, tpTrade, sePending,
                   seOrder, opErr, panicked>>

CallCalculateRisk ==
    /\ call.fn = "CalculateRisk" /\ ~call.done
    /\ call' = [call EXCEPT !.done = TRUE,
                            !.result = CalculateRisk(call.config, call.order, call.pf)]
    /\ UNCHANGED <<portfolio, strategies, marketData, orderQueue, tradeQueue, orders, mu,
                   running, stopChan, ctxDone, pc, opOrder, opTrade, tpTrade, sePending,
                   seOrder, opErr, panicked>>

CallNext == CallValidateOrder \/ CallCalculateRisk

CallSpec == CallInit /\ [][CallNext]_vars

\* ============================================================ properties
\* Order i goes from pending to filled in this step.
Fills(i) == orders[i].Status = OrderStatusPending /\ orders'[i].Status = OrderStatusFilled

\* Order i goes from pending to rejected in this step.
Rejects(i) == orders[i].Status = OrderStatusPending /\ orders'[i].Status = OrderStatusRejected

\* C1: a buy order that passes validation and the risk check is executed
\* with cash_after = cash_before - notional - notional x 0.001 (the engine's
\* rate, not the strategy's CommissionRate); the position's quantity grows
\* by the order's and its average price becomes
\* (oldAvg x oldQty + price x qty) / (oldQty + qty), oldQty = 0 for a new
\* position (the quotient is decimal.Div's).
C1_BuyFillAccounting ==
    [][\A i \in 1..Len(orders) :
          (Fills(i) /\ orders[i].Side = OrderSideBuy) =>
             LET o == orders[i]
                 notional == o.Price * o.Quantity
                 held == o.Symbol \in DOMAIN portfolio.Positions
                 oldQty == IF held THEN portfolio.Positions[o.Symbol].Quantity ELSE 0
                 oldAvg == IF held THEN portfolio.Positions[o.Symbol].AveragePrice ELSE 0
             IN  /\ portfolio'.Cash = portfolio.Cash - notional - notional \div 1000
                 /\ o.Symbol \in DOMAIN portfolio'.Positions
                 /\ portfolio'.Positions[o.Symbol].Quantity = oldQty + o.Quantity
                 /\ portfolio'.Positions[o.Symbol].AveragePrice
                      = DecDiv(oldAvg * oldQty + o.Price * o.Quantity,
                               NewFromInt(oldQty + o.Quantity))
      ]_vars

\* C1's case: a buy has just been executed on top of a holding bought at
\* another price (1 @ 10 then 2 @ 11: 3 held at 10.667).
C1_Witness ==
    /\ mu = "orderProcessor"
    /\ opTrade # <<>> /\ opTrade[1].Side = OrderSideBuy
    /\ "AAPL" \in DOMAIN portfolio.Positions
    /\ portfolio.Positions["AAPL"].Quantity = 3
    /\ portfolio.Positions["AAPL"].AveragePrice = 10667
    /\ portfolio.Cash = NewFromInt(100) - 10010 - 22022

\* C2: a sell order of at most the held quantity is executed with
\* cash_after = cash_before + notional - commission and the position's
\* quantity reduced by the order's; a resulting quantity <= 0 removes the
\* symbol from the positions map, otherwise the position stays.
C2_SellFillAccounting ==
    [][\A i \in 1..Len(orders) :
          (Fills(i) /\ orders[i].Side = OrderSideSell) =>
             LET o == orders[i]
                 notional == o.Price * o.Quantity
             IN  /\ o.Symbol \in DOMAIN portfolio.Positions
                 /\ o.Quantity <= portfolio.Positions[o.Symbol].Quantity
                 /\ portfolio'.Cash = portfolio.Cash + notional - notional \div 1000
                 /\ IF portfolio.Positions[o.Symbol].Quantity - o.Quantity <= 0
                    THEN o.Symbol \notin DOMAIN portfolio'.Positions
                    ELSE /\ o.Symbol \in DOMAIN portfolio'.Positions
                         /\ portfolio'.Positions[o.Symbol].Quantity
                              = portfolio.Positions[o.Symbol].Quantity - o.Quantity
      ]_vars

\* C2's case: the second of two sells of 1 out of a holding of 2 has just
\* been executed and the symbol is gone from the map.
C2_Witness ==
    /\ mu = "orderProcessor"
    /\ opTrade # <<>> /\ opTrade[1].Side = OrderSideSell
    /\ Len(orders) >= 3 /\ orders[2].Status = OrderStatusFilled
    /\ orders[2].Side = OrderSideSell
    /\ "AAPL" \notin DOMAIN portfolio.Positions
    /\ portfolio.Cash = NewFromInt(100) - 22022 + 10989 + 10989

\* C3: ValidateOrder returns no error exactly when none of its five
\* conditions holds; an error it returns is the error of a condition that
\* holds; and a condition that holds alone produces its own error
\* (quantity <= 0: InvalidQuantity; notional < MinOrderSize: OrderTooSmall;
\* notional > MaxOrderSize: OrderTooLarge; buy and cash < notional:
\* InsufficientFunds; sell and no or too small a position:
\* InsufficientPosition).
C3_ValidateOrderErrors ==
    (call.fn = "ValidateOrder" /\ call.done) =>
       LET o == call.order
           notional == o.Price * o.Quantity
           cond == [e \in {ErrInvalidQuantity, ErrOrderTooSmall, ErrOrderTooLarge,
                           ErrInsufficientFunds, ErrInsufficientPosition} |->
                      CASE e = ErrInvalidQuantity -> o.Quantity <= 0
                        [] e = ErrOrderTooSmall -> notional < call.config.MinOrderSize
                        [] e = ErrOrderTooLarge -> notional > call.config.MaxOrderSize
                        [] e = ErrInsufficientFunds ->
                              o.Side = OrderSideBuy /\ call.pf.Cash < notional
                        [] e = ErrInsufficientPosition ->
                              /\ o.Side = OrderSideSell
                              /\ \/ o.Symbol \notin DOMAIN call.pf.Positions
                                 \/ call.pf.Positions[o.Symbol].Quantity < o.Quantity]
       IN  /\ (call.result = Nil) <=> (\A e \in DOMAIN cond : ~cond[e])
           /\ call.result # Nil => (call.result \in DOMAIN cond /\ cond[call.result])
           /\ \A e \in DOMAIN cond :
                 (cond[e] /\ \A f \in DOMAIN cond \ {e} : ~cond[f]) => call.result = e

\* C3's case: a sell of more than is held, valid in every other respect,
\* has been refused with InsufficientPosition.
C3_Witness ==
    /\ call.fn = "ValidateOrder" /\ call.done
    /\ call.result = ErrInsufficientPosition
    /\ call.order.Quantity = 2
    /\ call.order.Symbol \in DOMAIN call.pf.Positions
    /\ call.pf.Positions[call.order.Symbol].Quantity = 1
    /\ call.order.Price * call.order.Quantity >= call.config.MinOrderSize
    /\ call.order.Price * call.order.Quantity <= call.config.MaxOrderSize

Range(seq) == { seq[k] : k \in 1..Len(seq) }

\* How many times x occurs in a sequence.
Count(seq, x) == Cardinality({ k \in 1..Len(seq) : seq[k] = x })

\* Order i has a terminal status and processOrder is done with it.
Terminal(i) == orders[i].Status \in {OrderStatusFilled, OrderStatusRejected} /\ opOrder # i

\* C5: an order is created pending and changes status once, to filled or
\* to rejected, in processOrder as the order-intake stage takes the
\* exclusive lock; no other status occurs, a terminal status stays, and an
\* order enters the order queue only from its creation, never again.
C5_OrderLifecycle ==
    [][/\ Len(orders') >= Len(orders)
       /\ \A i \in 1..Len(orders') :
             i > Len(orders) => /\ orders'[i].Status = OrderStatusPending
                                /\ seOrder' = i
       /\ \A i \in 1..Len(orders) :
             /\ orders'[i].Status \in {OrderStatusPending, OrderStatusFilled, OrderStatusRejected}
             /\ orders'[i].Status # orders[i].Status =>
                   /\ orders[i].Status = OrderStatusPending
                   /\ orders'[i].Status \in {OrderStatusFilled, OrderStatusRejected}
                   /\ pc["orderProcessor"] = "lock" /\ opOrder = i /\ mu = "free"
                   /\ \A j \in 1..Len(orders) : j # i => orders'[j] = orders[j]
             /\ orders[i].Status # OrderStatusPending => i \notin Range(orderQueue')
             /\ (i \in Range(orderQueue') /\ i \notin Range(orderQueue)) =>
                   (seOrder = i /\ seOrder' = 0 /\ Count(orderQueue', i) = 1)
             /\ ~(seOrder' = i /\ seOrder # i)
      ]_vars

\* C5's case: of three orders processed, two have been rejected and the
\* third filled.
C5_Witness ==
    /\ Len(orders) = 3
    /\ orders[1].Status = OrderStatusRejected
    /\ orders[2].Status = OrderStatusRejected
    /\ orders[3].Status = OrderStatusFilled
    /\ opOrder = 0 /\ orderQueue = <<>>

\* C6: processing an order that ValidateOrder or CalculateRisk refuses
\* leaves the portfolio (cash, positions, trade history and the rest) and
\* the trade queue as they were, produces no trade, and does not put the
\* order back on the order queue.
C6_RejectionNoEffect ==
    [][\A i \in 1..Len(orders) :
          Rejects(i) =>
             /\ portfolio' = portfolio
             /\ tradeQueue' = tradeQueue
             /\ opTrade = <<>> /\ opTrade' = <<>>
             /\ tpTrade' = tpTrade
             /\ orderQueue' = orderQueue /\ i \notin Range(orderQueue')
             /\ seOrder' = seOrder /\ seOrder # i
             /\ opErr' # Nil
      ]_vars

\* C6's case: a sell refused by ValidateOrder and a buy refused by
\* CalculateRisk have both been processed, and the cash is untouched.
C6_Witness ==
    /\ Len(orders) = 2
    /\ orders[1].Status = OrderStatusRejected /\ orders[1].Side = OrderSideSell
    /\ orders[2].Status = OrderStatusRejected /\ orders[2].Side = OrderSideBuy
    /\ opErr = ErrPortfolioRiskExceeded
    /\ portfolio.Cash = InitialCash /\ portfolio.Positions = EmptyMap
    /\ portfolio.TradeHistory = <<>> /\ tradeQueue = <<>>

\* The trades pushed to the trade queue so far, oldest first: settled,
\* in the settlement stage's hand, or still queued.
Pushed == portfolio.TradeHistory \o tpTrade \o tradeQueue

\* C7: once processOrder has returned, a filled order has exactly one trade
\* pushed to the trade queue, carrying its id, symbol, side, quantity,
\* price and strategy id, and exactly one entry in order history, whether
\* or not the fill deleted the position; an order that is not filled has
\* no trade and no entry, and every trade belongs to a filled order.
C7_OneTradePerFill ==
    /\ \A k \in 1..Len(Pushed) :
          /\ Pushed[k].OrderID \in 1..Len(orders)
          /\ orders[Pushed[k].OrderID].Status = OrderStatusFilled
          /\ LET o == orders[Pushed[k].OrderID]
             IN  /\ Pushed[k].Symbol = o.Symbol /\ Pushed[k].Side = o.Side
                 /\ Pushed[k].Quantity = o.Quantity /\ Pushed[k].Price = o.Price
                 /\ Pushed[k].StrategyID = o.StrategyID
    /\ \A i \in 1..Len(orders) :
          LET trades == Cardinality({ k \in 1..Len(Pushed) : Pushed[k].OrderID = i })
              entries == Count(portfolio.OrderHistory, i)
          IN  IF orders[i].Status = OrderStatusFilled /\ opOrder # i
              THEN trades = 1 /\ entries = 1
              ELSE trades = 0 /\ entries = 0

\* C7's case: the fill that deleted the position (the second sell of 1 out
\* of 2) has its trade pushed and its entry in order history.
C7_Witness ==
    /\ Len(orders) >= 3
    /\ orders[3].Status = OrderStatusFilled /\ orders[3].Side = OrderSideSell
    /\ opOrder = 0
    /\ "AAPL" \notin DOMAIN portfolio.Positions
    /\ Len(Pushed) = 3 /\ Pushed[3].OrderID = 3
    /\ portfolio.OrderHistory = <<1, 2, 3>>

\* C8: the send on the bounded order queue blocks: the producer's order
\* leaves its hand only by being appended to a queue with room; every
\* order created is in exactly one place: in the producer's hand, in the
\* queue (once), with processOrder, or terminal; the queue never exceeds
\* its capacity.
C8_OrderQueueNoLoss ==
    [][/\ Len(orderQueue') <= OrderQueueCap
       /\ (seOrder # 0 /\ seOrder' # seOrder) =>
             /\ Len(orderQueue) < OrderQueueCap
             /\ orderQueue' = Append(orderQueue, seOrder)
       /\ \A i \in 1..Len(orders') :
             (IF seOrder' = i THEN 1 ELSE 0) + Count(orderQueue', i)
               + (IF opOrder' = i THEN 1 ELSE 0)
               + (IF orders'[i].Status # OrderStatusPending /\ opOrder' # i THEN 1 ELSE 0) = 1
      ]_vars

\* C8's case: the producer stands at its send with an order in hand while
\* the order queue is full.
C8_Witness ==
    /\ pc["strategyExecutor"] = "send" /\ seOrder = OrderQueueCap + 1
    /\ Len(orderQueue) = OrderQueueCap
    /\ ~StopSignalled

\* C9: while the engine is neither stopped nor cancelled, a trade the
\* settlement stage has taken from the trade queue can always be appended
\* to trade history: execution is never blocked on a full trade queue,
\* holding the lock the settlement stage waits for.
C9_SettlementNotBlocked ==
    (~StopSignalled /\ ~panicked /\ tpTrade # <<>>) =>
       ~(mu = "orderProcessor" /\ Len(tradeQueue) = TradeQueueCap)

\* The order ids of a sequence of trades.
OrderIDs(trades) == [k \in 1..Len(trades) |-> trades[k].OrderID]

\* A sequence of numbers is strictly increasing.
Increasing(seq) == \A k \in 1..(Len(seq) - 1) : seq[k] < seq[k + 1]

\* C10: orders are processed in the order of their submission and trades
\* settle in the order of the fills: the order queue holds orders oldest
\* first, an order is taken by processOrder only when every order
\* submitted before it is terminal, and trade history (with the trades
\* still on their way to it) and order history are in submission order.
C10_Fifo ==
    /\ Increasing(orderQueue)
    /\ \A i \in Range(orderQueue) : seOrder # 0 => i < seOrder
    /\ \A j \in 1..Len(orders) :
          (opOrder = j \/ orders[j].Status # OrderStatusPending) =>
             /\ seOrder # j /\ j \notin Range(orderQueue)
             /\ \A i \in 1..(j - 1) : Terminal(i)
    /\ Increasing(OrderIDs(Pushed \o opTrade))
    /\ Increasing(portfolio.OrderHistory)

\* C10's case: two orders waited in the queue together, both have filled,
\* the first one's trade is settled and the second one's is queued behind.
C10_Witness ==
    /\ Len(orders) >= 2
    /\ orders[1].Status = OrderStatusFilled /\ orders[2].Status = OrderStatusFilled
    /\ Len(portfolio.TradeHistory) = 1 /\ portfolio.TradeHistory[1].OrderID = 1
    /\ tradeQueue # <<>> /\ tradeQueue[1].OrderID = 2
    /\ portfolio.OrderHistory = <<1, 2>>

\* What filling order i adds to cash: minus notional and commission for a
\* buy, notional minus commission for a sell.
CashDelta(i) ==
    LET notional == orders[i].Price * orders[i].Quantity
    IN  IF orders[i].Side = OrderSideBuy
        THEN 0 - notional - notional \div 1000
        ELSE notional - notional \div 1000

\* What filling order i adds to the quantity held of its symbol.
QuantityDelta(i) ==
    IF orders[i].Side = OrderSideBuy THEN orders[i].Quantity ELSE 0 - orders[i].Quantity

\* The orders whose execution shows in the portfolio if order history is
\* the whole account of it: those in order history, and the one
\* processOrder is holding the lock for.
Accounted ==
    Range(portfolio.OrderHistory) \cup (IF mu = "orderProcessor" THEN {opOrder} ELSE {})

\* Cash and positions are those of the accounted orders, cash and position
\* together; with the lock free every filled order is in order history.
AccountedExactly ==
    /\ portfolio.Cash = InitialCash + SumOver([i \in Accounted |-> CashDelta(i)], Accounted)
    /\ \A sym \in Symbols :
          LET of == { i \in Accounted : orders[i].Symbol = sym }
              held == SumOver([i \in of |-> QuantityDelta(i)], of)
          IN  IF held > 0
              THEN sym \in DOMAIN portfolio.Positions
                   /\ portfolio.Positions[sym].Quantity = held
              ELSE held = 0 /\ sym \notin DOMAIN portfolio.Positions
    /\ mu = "free" =>
          \A i \in 1..Len(orders) :
             orders[i].Status = OrderStatusFilled => i \in Range(portfolio.OrderHistory)

ExecuteReads == ~panicked /\ pc["strategyExecutor"] = "iter"

\* C12: every read of the portfolio by a strategy call made from the
\* polling stage takes place under the engine lock, so it never overlaps a
\* mutator's write: while Execute reads, no stage holds the exclusive lock.
C12_ReadsUnderLock == ExecuteReads => mu = "free"

\* ------------------------------------------------ a tight cash endowment
\* An engine built with cash for two of strategy s2's orders at their
\* price and one commission: 20.010, each order costing 10 + 0.010.
TightCash == 2 * NewFromInt(10) + 10

CashInit == NewTradingEngine(TightCash) /\ call = NoCall

CashNext ==
    \/ AddStrategy("s2")
    \/ \E sym \in Symbols : \E price \in TickPrices[sym] : UpdateMarketData(sym, price)
    \/ Start
    \/ OrderReceive
    \/ processOrder
    \/ SendTrade
    \/ TradeReceive
    \/ processTrade
    \/ executeStrategies
    \/ StrategySkip
    \/ StrategySignal
    \/ SendOrder
    \/ updatePortfolio
    \/ manageRisk

CashSpec == CashInit /\ [][CashNext]_vars

\* What one order costs its buyer: notional and the engine's commission.
OrderCost(i) == 0 - CashDelta(i)

\* How many of the orders, taken in turn, the endowment pays for in full.
Affordable ==
    LET pays(k) == SumOver([i \in 1..k |-> OrderCost(i)], 1..k) <= TightCash
    IN  Cardinality({ k \in 1..Len(orders) : pays(k) })

\* C14: of N valid buy orders submitted against cash that pays for M < N
\* of them, exactly M are filled and N - M rejected once all are
\* processed.
C14_FillsWhatCashPaysFor ==
    (Len(orders) = 3 /\ \A i \in 1..3 : Terminal(i)) =>
       /\ Cardinality({ i \in 1..3 : orders[i].Status = OrderStatusFilled }) = Affordable
       /\ Cardinality({ i \in 1..3 : orders[i].Status = OrderStatusRejected }) = 3 - Affordable

\* C15: cash never goes below zero.
C15_CashNonNegative == portfolio.Cash >= 0

\* Every order submitted has a terminal status and every trade is settled.
Settled ==
    /\ \A i \in 1..Len(orders) : Terminal(i)
    /\ seOrder = 0 /\ orderQueue = <<>>
    /\ tradeQueue = <<>> /\ tpTrade = <<>> /\ opTrade = <<>>

\* Cash plus quantity x current price over the positions map.
FromScratch ==
    portfolio.Cash
      + SumOver([sym \in DOMAIN portfolio.Positions |->
                    portfolio.Positions[sym].Quantity * portfolio.Positions[sym].CurrentPrice],
                DOMAIN portfolio.Positions)

\* C16: when every submitted order is terminal and every trade settled,
\* the maintained TotalValue equals cash plus the sum over the positions
\* of quantity x current price.
C16_TotalValueFromScratch == Settled => portfolio.TotalValue = FromScratch

\* C17: a valuation pass leaves TotalValue equal to cash plus the sum of
\* MarketValue over every position of the map (a position whose symbol has
\* no tick included), and every position whose symbol has a tick with
\* MarketValue = latest price x quantity and
\* UnrealizedPnL = (latest price - average price) x quantity.
C17_ValuationPass ==
    [][updatePortfolio =>
          /\ portfolio'.TotalValue
               = portfolio'.Cash
                 + SumOver([sym \in DOMAIN portfolio'.Positions |->
                               portfolio'.Positions[sym].MarketValue],
                           DOMAIN portfolio'.Positions)
          /\ DOMAIN portfolio'.Positions = DOMAIN portfolio.Positions
          /\ portfolio'.Cash = portfolio.Cash
          /\ \A sym \in (DOMAIN portfolio'.Positions) \cap (DOMAIN marketData) :
                LET position == portfolio'.Positions[sym]
                IN  /\ position.MarketValue = marketData[sym] * position.Quantity
                    /\ position.UnrealizedPnL
                         = (marketData[sym] - position.AveragePrice) * position.Quantity
                    /\ position.Quantity = portfolio.Positions[sym].Quantity
                    /\ position.AveragePrice = portfolio.Positions[sym].AveragePrice
      ]_vars

\* C17's case: a holding of 3 bought at 10.667 on average has been valued
\* at the tick of 9: worth 27 at a loss of 5.001.
C17_Witness ==
    /\ "AAPL" \in DOMAIN portfolio.Positions /\ "AAPL" \in DOMAIN marketData
    /\ portfolio.Positions["AAPL"].Quantity = 3
    /\ portfolio.Positions["AAPL"].MarketValue = NewFromInt(27)
    /\ portfolio.Positions["AAPL"].UnrealizedPnL = 0 - 5001
    /\ portfolio.TotalValue = portfolio.Cash + NewFromInt(27)

\* ------------------------------------------------ the end-to-end scenario
\* GetPortfolio: under RLock, return e.portfolio, the pointer. `seen` keeps
\* what the caller reads through it as the call returns.
GetPortfolio ==
    /\ ~panicked /\ mu = "free"
    /\ call' = [fn |-> "GetPortfolio", result |-> "e.portfolio", seen |-> portfolio]
    /\ UNCHANGED <<portfolio, strategies, marketData, orderQueue, tradeQueue, orders, mu,
                   running, stopChan, ctxDone, pc, opOrder, opTrade, tpTrade, sePending,
                   seOrder, opErr, panicked>>

\* What is read through a *models.Portfolio: the engine has one.
Deref(pointer) == IF pointer = "e.portfolio" THEN portfolio ELSE call.seen

\* The market prices of the scenario.
E2EPrices == {NewFromInt(150), NewFromInt(160)}

\* main.go's default endowment.
E2EInit == NewTradingEngine(NewFromInt(100000)) /\ call = NoCall

E2ENext ==
    \/ AddStrategy("e2e")
    \/ \E price \in E2EPrices : UpdateMarketData("AAPL", price)
    \/ GetPortfolio
    \/ Start
    \/ OrderReceive
    \/ processOrder
    \/ SendTrade
    \/ TradeReceive
    \/ processTrade
    \/ executeStrategies
    \/ StrategySkip
    \/ StrategySignal
    \/ SendOrder
    \/ updatePortfolio
    \/ manageRisk

E2ESpec == E2EInit /\ [][E2ENext]_vars

\* C13: what is visible through the value GetPortfolio returned stays what
\* it was when the call returned, whatever the engine does afterwards.
C13_SnapshotUnchanged ==
    call.fn = "GetPortfolio" => Deref(call.result) = call.seen

\* C18: from cash 100,000 and no positions, the buy of 100 AAPL at 150 is
\* never rejected and, once filled, leaves cash 84,985 and the single
\* position AAPL, 100 at an average of 150; once a valuation pass has
\* priced the position at the tick of 160, its unrealized P&L is 1,000
\* and the total value 100,985.
C18_EndToEnd ==
    Len(orders) >= 1 =>
       /\ orders[1].Status \in {OrderStatusPending, OrderStatusFilled}
       /\ orders[1].Status = OrderStatusPending =>
             portfolio.Cash = NewFromInt(100000) /\ portfolio.Positions = EmptyMap
       /\ orders[1].Status = OrderStatusFilled =>
             /\ portfolio.Cash = NewFromInt(84985)
             /\ DOMAIN portfolio.Positions = {"AAPL"}
             /\ portfolio.Positions["AAPL"].Quantity = 100
             /\ portfolio.Positions["AAPL"].AveragePrice = NewFromInt(150)
             /\ portfolio.Positions["AAPL"].CurrentPrice = NewFromInt(160) =>
                   /\ portfolio.Positions["AAPL"].UnrealizedPnL = NewFromInt(1000)
                   /\ portfolio.Positions["AAPL"].MarketValue = NewFromInt(16000)
                   /\ portfolio.TotalValue = NewFromInt(100985)

\* C18's case: the order is filled and settled, the tick of 160 has come
\* and a valuation pass has priced the position at it.
C18_Witness ==
    /\ Len(orders) = 1 /\ Terminal(1)
    /\ Len(portfolio.TradeHistory) = 1
    /\ "AAPL" \in DOMAIN marketData /\ marketData["AAPL"] = NewFromInt(160)
    /\ "AAPL" \in DOMAIN portfolio.Positions
    /\ portfolio.Positions["AAPL"].CurrentPrice = NewFromInt(160)
    /\ portfolio.TotalValue = NewFromInt(100985)

\* ------------------------------------------------------ the life cycle
\* Start and Stop as calls whose outcome the caller sees. `call` keeps the
\* error of the newest call, the number of calls made (seq) and the number
\* of times Start has launched the five goroutines since the engine was
\* last stopped (launched).
MaxCalls == 4

AlreadyRunning == "trading engine already running"

FirstCall == [fn |-> "none", err |-> "nil", seq |-> 0, launched |-> 0]

\* Start as it would be without the check of e.running.
CallStart_NoRunningCheck ==
    /\ ~panicked /\ mu = "free"
    /\ call.seq < MaxCalls
    /\ running' = TRUE
    /\ pc' = [s \in Stages |-> "select"]
    /\ \E done \in {FALSE, ctxDone} : ctxDone' = done
    /\ call' = [fn |-> "Start", err |-> "nil", seq |-> call.seq + 1,
                launched |-> call.launched + 1]
    /\ UNCHANGED <<portfolio, strategies, marketData, orderQueue, tradeQueue, orders, mu,
                   stopChan, opOrder, opTrade, tpTrade, sePending, seOrder, panicked,
                   opErr>>

\* Start(ctx). The goroutines of an earlier run have returned when the
\* engine is started again; ctx is the earlier context or a live one.
CallStart ==
    /\ ~panicked /\ mu = "free"
    /\ call.seq < MaxCalls
    /\ IF running
       THEN /\ call' = [fn |-> "Start", err |-> AlreadyRunning, seq |-> call.seq + 1,
                        launched |-> call.launched]
            /\ UNCHANGED <<running, pc, ctxDone>>
       ELSE /\ \A s \in Stages : pc[s] \in {"idle", "exited"}
            /\ running' = TRUE
            /\ pc' = [s \in Stages |-> "select"]
            /\ \E done \in {FALSE, ctxDone} : ctxDone' = done
            /\ call' = [fn |-> "Start", err |-> "nil", seq |-> call.seq + 1,
                        launched |-> call.launched + 1]
    /\ UNCHANGED <<portfolio, strategies, marketData, orderQueue, tradeQueue, orders, mu,
                   stopChan, opOrder, opTrade, tpTrade, sePending, seOrder, panicked,
                   opErr>>

\* Stop(). close(e.stopChan) panics when the channel is closed already.
CallStop ==
    /\ ~panicked /\ mu = "free"
    /\ call.seq < MaxCalls
    /\ IF ~running
       THEN /\ call' = [call EXCEPT !.fn = "Stop", !.err = "nil", !.seq = @ + 1]
            /\ UNCHANGED <<running, stopChan, panicked>>
       ELSE /\ running' = FALSE
            /\ call' = [fn |-> "Stop", err |-> "nil", seq |-> call.seq + 1, launched |-> 0]
            /\ IF stopChan = "closed"
               THEN panicked' = TRUE /\ UNCHANGED stopChan
               ELSE stopChan' = "closed" /\ UNCHANGED panicked
    /\ UNCHANGED <<portfolio, strategies, marketData, orderQueue, tradeQueue, orders, mu,
                   ctxDone, pc, opOrder, opTrade, tpTrade, sePending, seOrder, opErr>>

LifeInit == NewTradingEngine(InitialCash) /\ call = FirstCall

LifeNext ==
    \/ \E id \in StrategyIDs : AddStrategy(id)
    \/ \E id \in StrategyIDs : RemoveStrategy(id)
    \/ CallStart
    \/ CallStop
    \/ CtxDone
    \/ \E stage \in Stages : StageExit(stage)

LifeSpec == LifeInit /\ [][LifeNext]_vars

\* C19: a Start call made while the engine is running returns the
\* "already running" error, launches nothing and changes nothing of the
\* engine; and the Start calls made since the engine was last stopped have
\* launched the five stages at most once.
C19_DoubleStart ==
    /\ [][(running /\ call'.seq # call.seq /\ call'.fn = "Start") =>
             /\ call'.err = AlreadyRunning
             /\ call'.launched = call.launched
             /\ UNCHANGED <<portfolio, strategies, marketData, orderQueue, tradeQueue,
                            orders, mu, running, stopChan, ctxDone, pc, opOrder, opTrade,
                            tpTrade, sePending, seOrder, opErr, panicked>>]_vars
    /\ [](call.launched <= 1)

\* C19's case: Start has just failed on a running engine, one of whose
\* stages has returned already.
C19_Witness ==
    /\ running
    /\ call.fn = "Start" /\ call.err = AlreadyRunning /\ call.launched = 1
    /\ \E s \in Stages : pc[s] = "exited"
    /\ \E s \in Stages : pc[s] = "select"

\* --------------------------------------------------------- cancellation
\* A stage that can never take another step: strategyExecutor in the send
\* of createOrderFromResult on a full order queue whose reader has
\* returned, or orderProcessor in the send of executeOrder, holding e.mu,
\* on a full trade queue whose reader has returned.
BlockedForever(stage) ==
    \/ /\ stage = "strategyExecutor"
       /\ pc[stage] = "send"
       /\ Len(orderQueue) = OrderQueueCap
       /\ pc["orderProcessor"] = "exited"
    \/ /\ stage = "orderProcessor"
       /\ pc[stage] = "send"
       /\ mu = "orderProcessor"
       /\ Len(tradeQueue) = TradeQueueCap
       /\ pc["tradeProcessor"] = "exited"

\* C20: once the stop signal is given, no stage is blocked for good in a
\* send on a full queue, and none is left holding the exclusive lock with
\* no step to take.
C20_NoStageStuckAfterStop ==
    StopSignalled => \A stage \in Stages : ~BlockedForever(stage)

\* ------------------------------------------------- the polling cycle
\* executeStrategies' loop turn by turn, each turn's outcome kept in
\* `call`: the strategy visited and the error of its Execute (Nil: none;
\* "not called" when IsEnabled is false).
PollIDs == {"s1", "s2", "off"}

\* Errors an implementation of Strategy.Execute may return.
ExecuteErrors == {ErrStrategyDisabled, ErrInvalidMarketData}

Turn(id, err) == [fn |-> "Execute", StrategyID |-> id, err |-> err]

\* The turn of a strategy whose IsEnabled is false: continue.
StrategyDisabled ==
    /\ At("strategyExecutor", "iter")
    /\ ~IsEnabled(Head(sePending))
    /\ call' = Turn(Head(sePending), "not called")
    /\ sePending' = Tail(sePending)
    /\ pc' = [pc EXCEPT !["strategyExecutor"] = LoopAt(Tail(sePending))]
    /\ UNCHANGED <<portfolio, strategies, marketData, orderQueue, tradeQueue, orders, mu,
                   running, stopChan, ctxDone, opOrder, opTrade, tpTrade, seOrder, panicked,
                   opErr>>

\* The err != nil branch as it would be if a failing strategy were taken
\* out of the registry.
ExecuteFails_Removes ==
    /\ At("strategyExecutor", "iter")
    /\ IsEnabled(Head(sePending))
    /\ \E err \in ExecuteErrors : call' = Turn(Head(sePending), err)
    /\ strategies' = strategies \ {Head(sePending)}
    /\ sePending' = Tail(sePending)
    /\ pc' = [pc EXCEPT !["strategyExecutor"] = LoopAt(Tail(sePending))]
    /\ UNCHANGED <<portfolio, marketData, orderQueue, tradeQueue, orders, mu,
                   running, stopChan, ctxDone, opOrder, opTrade, tpTrade, seOrder, panicked,
                   opErr>>

\* The turn of an enabled strategy whose Execute returns an error: it is
\* logged, continue.
ExecuteFails ==
    /\ At("strategyExecutor", "iter")
    /\ IsEnabled(Head(sePending))
    /\ \E err \in ExecuteErrors : call' = Turn(Head(sePending), err)
    /\ sePending' = Tail(sePending)
    /\ pc' = [pc EXCEPT !["strategyExecutor"] = LoopAt(Tail(sePending))]
    /\ UNCHANGED <<portfolio, strategies, marketData, orderQueue, tradeQueue, orders, mu,
                   running, stopChan, ctxDone, opOrder, opTrade, tpTrade, seOrder, panicked,
                   opErr>>

\* The turn of an enabled strategy whose Execute returns (nil, nil).
ExecuteNil ==
    /\ At("strategyExecutor", "iter")
    /\ IsEnabled(Head(sePending))
    /\ call' = Turn(Head(sePending), Nil)
    /\ sePending' = Tail(sePending)
    /\ pc' = [pc EXCEPT !["strategyExecutor"] = LoopAt(Tail(sePending))]
    /\ UNCHANGED <<portfolio, strategies, marketData, orderQueue, tradeQueue, orders, mu,
                   running, stopChan, ctxDone, opOrder, opTrade, tpTrade, seOrder, panicked,
                   opErr>>

PollNext ==
    \/ \E id \in PollIDs : AddStrategy(id)
    \/ \E id \in PollIDs : RemoveStrategy(id)
    \/ Start
    \/ OrderReceive
    \/ processOrder
    \/ SendTrade
    \/ TradeReceive
    \/ processTrade
    \/ executeStrategies
    \/ StrategyDisabled
    \/ ExecuteFails
    \/ ExecuteNil
    \/ StrategySignal
    \/ SendOrder

PollSpec == Init /\ [][PollNext]_vars

\* A step of the polling stage.
PollStep ==
    \/ pc'["strategyExecutor"] # pc["strategyExecutor"]
    \/ sePending' # sePending
    \/ seOrder' # seOrder

\* C21: the turn of a strategy whose Execute fails allocates and submits
\* no order, leaves the registry as it is and goes on to the strategies
\* left in the cycle; no step of the polling stage changes the registry;
\* each cycle visits every registered strategy, so one that failed is
\* executed again; and an order is allocated only in the turn of an
\* enabled strategy, for the result it returned, with no error.
C21_FailedExecuteSkipped ==
    [][/\ ExecuteFails =>
             /\ orders' = orders /\ orderQueue' = orderQueue /\ seOrder' = seOrder
             /\ strategies' = strategies
             /\ sePending' = Tail(sePending)
             /\ pc'["strategyExecutor"] = LoopAt(Tail(sePending))
       /\ PollStep => strategies' = strategies
       /\ (pc["strategyExecutor"] = "select" /\ sePending' # sePending) =>
             Range(sePending') = strategies /\ Len(sePending') = Cardinality(strategies)
       /\ orders' # orders /\ Len(orders') > Len(orders) =>
             /\ pc["strategyExecutor"] = "iter"
             /\ IsEnabled(Head(sePending))
             /\ Len(orders') = Len(orders) + 1
             /\ orders'[Len(orders')].StrategyID = Head(sePending)
             /\ call' = call
       /\ orderQueue' # orderQueue /\ Len(orderQueue') > Len(orderQueue) =>
             /\ seOrder # 0
             /\ orderQueue' = Append(orderQueue, seOrder)
             /\ IsEnabled(orders[seOrder].StrategyID)]_vars

\* C21's case: in a cycle over s2 and then s1, s2's Execute failed and
\* s1's result has become an order that is about to be submitted.
C21_Witness ==
    /\ {"s1", "s2"} \subseteq strategies
    /\ call.fn = "Execute" /\ call.StrategyID = "s2" /\ call.err \in ExecuteErrors
    /\ pc["strategyExecutor"] = "send"
    /\ sePending = <<>>
    /\ orders[seOrder].StrategyID = "s1"
    /\ Len(orders) = 1

\* ------------------------------------------------------------ long-only
\* The symbols held.
Held == DOMAIN portfolio.Positions

\* C22: whenever the exclusive lock is free every position in the map has
\* a quantity of at least 1; a symbol enters the map only in the step that
\* fills a buy of it, and leaves it only in the step that fills a sell of
\* the whole holding.
C22_LongOnly ==
    /\ [](mu = "free" => \A sym \in Held : portfolio.Positions[sym].Quantity >= 1)
    /\ [][/\ \A sym \in Held' \ Held :
                /\ opOrder # 0 /\ orders[opOrder].Status = OrderStatusPending
                /\ orders'[opOrder].Status = OrderStatusFilled
                /\ orders[opOrder].Side = OrderSideBuy /\ orders[opOrder].Symbol = sym
          /\ \A sym \in Held \ Held' :
                /\ opOrder # 0 /\ orders'[opOrder].Status = OrderStatusFilled
                /\ orders[opOrder].Side = OrderSideSell /\ orders[opOrder].Symbol = sym
                /\ orders[opOrder].Quantity = portfolio.Positions[sym].Quantity]_vars

\* C22's case: both sells of a holding of two have been filled, one unit
\* each, the second one flattening the position, which is gone.
C22_Witness ==
    /\ mu = "free"
    /\ Len(orders) >= 3
    /\ orders[1].Side = OrderSideBuy /\ orders[1].Quantity = 2  /\ orders[1].Status = OrderStatusFilled
    /\ orders[2].Side = OrderSideSell /\ orders[2].Status = OrderStatusFilled
    /\ orders[3].Side = OrderSideSell /\ orders[3].Status = OrderStatusFilled
    /\ Len(portfolio.OrderHistory) = 3
    /\ "AAPL" \notin Held

\* --------------------------------------------------------- realized P&L
PnLNext ==
    \/ AddStrategy("s3")
    \/ \E sym \in Symbols : \E price \in TickPrices[sym] : UpdateMarketData(sym, price)
    \/ Start
    \/ OrderReceive
    \/ processOrder
    \/ SendTrade
    \/ TradeReceive
    \/ processTrade
    \/ executeStrategies
    \/ StrategySkip
    \/ StrategySignal
    \/ SendOrder
    \/ updatePortfolio

PnLSpec == Init /\ [][PnLNext]_vars

\* C23: the portfolio's RealizedPnL and every position's RealizedPnL are
\* zero in every reachable state.
C23_RealizedPnLZero ==
    /\ portfolio.RealizedPnL = 0
    /\ \A sym \in DOMAIN portfolio.Positions : portfolio.Positions[sym].RealizedPnL = 0

\* C23's case: of a holding bought at 10, one unit has been sold at 12
\* and settled, the other unit is still held.
C23_Witness ==
    /\ Len(orders) >= 2
    /\ orders[1].Side = OrderSideBuy /\ orders[1].Price = NewFromInt(10)
    /\ orders[2].Side = OrderSideSell /\ orders[2].Price = NewFromInt(12)
    /\ orders[2].Status = OrderStatusFilled
    /\ Len(portfolio.TradeHistory) = 2
    /\ "AAPL" \in DOMAIN portfolio.Positions
    /\ portfolio.Positions["AAPL"].Quantity = 1
    /\ portfolio.Positions["AAPL"].AveragePrice = NewFromInt(10)

\* ------------------------------------------------ the risk sweep's log
\* decimal.NewFromFloat(0.1), the drawdown above which manageRisk warns.
DrawdownLimit == 100

\* manageRisk's test of one position (MarketValue is not zero).
DrawdownExceeded(position) ==
    Abs(DecDiv(position.UnrealizedPnL, position.MarketValue)) > DrawdownLimit

\* The positions whose division panics.
ZeroValued(positions) ==
    { sym \in DOMAIN positions :
        positions[sym].Quantity > 0 /\ positions[sym].MarketValue = 0 }

\* The positions manageRisk warns about when it visits them all.
Warned(positions) ==
    { sym \in DOMAIN positions \ ZeroValued(positions) :
        positions[sym].Quantity > 0 /\ DrawdownExceeded(positions[sym]) }

\* manageRisk as it would be if it closed out what it flags.
manageRiskLogged_ClosesOut ==
    /\ At("riskManager", "select")
    /\ mu = "free"
    /\ ZeroValued(portfolio.Positions) = {}
    /\ call' = [fn |-> "manageRisk", seen |-> portfolio.Positions,
                warned |-> Warned(portfolio.Positions)]
    /\ portfolio' = [portfolio EXCEPT !.Positions =
                        [sym \in DOMAIN @ \ Warned(@) |-> @[sym]]]
    /\ UNCHANGED <<strategies, marketData, orderQueue, tradeQueue, orders, mu,
                   running, stopChan, ctxDone, pc, opOrder, opTrade, tpTrade, sePending,
                   seOrder, opErr, panicked>>

\* riskManager's ticker fires: manageRisk, with its log kept in `call`:
\* the positions map it walked and the symbols of its Warn lines. A
\* position of zero MarketValue panics the walk, after the positions that
\* range happened to visit before it.
manageRiskLogged ==
    /\ At("riskManager", "select")
    /\ mu = "free"
    /\ IF ZeroValued(portfolio.Positions) = {}
       THEN /\ call' = [fn |-> "manageRisk", seen |-> portfolio.Positions,
                        warned |-> Warned(portfolio.Positions)]
            /\ UNCHANGED panicked
       ELSE /\ \E visited \in SUBSET Warned(portfolio.Positions) :
                  call' = [fn |-> "manageRisk", seen |-> portfolio.Positions,
                           warned |-> visited]
            /\ panicked' = TRUE
    /\ UNCHANGED <<portfolio, strategies, marketData, orderQueue, tradeQueue, orders, mu,
                   running, stopChan, ctxDone, pc, opOrder, opTrade, tpTrade, sePending,
                   seOrder, opErr>>

\* The prices the market feed publishes in this scenario.
SweepPrices == {NewFromInt(9), NewFromInt(11), NewFromInt(12)}

SweepNext ==
    \/ AddStrategy("s3")
    \/ \E price \in SweepPrices : UpdateMarketData("AAPL", price)
    \/ Start
    \/ OrderReceive
    \/ processOrder
    \/ SendTrade
    \/ TradeReceive
    \/ processTrade
    \/ executeStrategies
    \/ StrategySkip
    \/ StrategySignal
    \/ SendOrder
    \/ updatePortfolio
    \/ manageRiskLogged

SweepSpec == Init /\ [][SweepNext]_vars

\* The unrealized loss of a position as a ratio of its value exceeds 10%.
LossExceeds(position) ==
    /\ position.UnrealizedPnL < 0
    /\ position.MarketValue > 0
    /\ DecDiv(0 - position.UnrealizedPnL, position.MarketValue) > DrawdownLimit

\* C24: a sweep that ran to its end warned about exactly the positions
\* whose unrealized loss exceeds 10% of their value.
C24_WarnsOnLossOnly ==
    (call.fn = "manageRisk" /\ ZeroValued(call.seen) = {}) =>
        call.warned = { sym \in DOMAIN call.seen : LossExceeds(call.seen[sym]) }

\* C25: a run of the risk sweep leaves the portfolio (cash, positions,
\* both histories, totals), both queues, the orders and the registry
\* unchanged, whatever it warns about.
C25_SweepChangesNothing ==
    [][manageRiskLogged =>
          UNCHANGED <<portfolio, orderQueue, tradeQueue, orders, strategies,
                      marketData>>]_vars

\* C25's case: the sweep has warned about the position, which is still
\* there as the sweep saw it.
C25_Witness ==
    /\ ~panicked
    /\ call.fn = "manageRisk"
    /\ call.warned = {"AAPL"}
    /\ call.seen = portfolio.Positions
    /\ portfolio.Positions["AAPL"].UnrealizedPnL < 0

\* --------------------------------------------------- the risk metrics
\* decimal.NewFromFloat(math.Sqrt(v.InexactFloat64())), to the model's
\* places: the root of v rounded to the nearest thousandth.
DecSqrt(v) ==
    LET n == v * DecUnit
        r == CHOOSE x \in 0..(v + DecUnit) : x * x <= n /\ n < (x + 1) * (x + 1)
    IN  IF n - r * r > r THEN r + 1 ELSE r

\* The sum of the first n elements of a sequence of decimals.
RECURSIVE SumTo(_, _)
SumTo(seq, n) == IF n = 0 THEN 0 ELSE seq[n] + SumTo(seq, n - 1)

\* The sum of a sequence of decimals (the sequence is evaluated once).
SumSeq(seq) == CHOOSE total \in { SumTo(s, Len(s)) : s \in {seq} } : TRUE

\* The loop of calculateVolatility from index i on as it would be if it
\* took the return at every trade, whatever its symbol.
RECURSIVE Returns_AnySymbol(_, _, _)
Returns_AnySymbol(symbol, history, i) ==
    IF i > Len(history) THEN <<>>
    ELSE LET prevPrice == history[i - 1].Price
             currPrice == history[i].Price
         IN  IF prevPrice # 0
             THEN <<DecDiv(currPrice - prevPrice, prevPrice)>>
                    \o Returns_AnySymbol(symbol, history, i + 1)
             ELSE Returns_AnySymbol(symbol, history, i + 1)

\* The loop of calculateVolatility from index i on (1-based): at every
\* trade of the symbol, the return from the price of the trade before it
\* in the history, unless that price is zero.
RECURSIVE Returns(_, _, _)
Returns(symbol, history, i) ==
    IF i > Len(history) THEN <<>>
    ELSE LET prevPrice == history[i - 1].Price
             currPrice == history[i].Price
         IN  IF history[i].Symbol = symbol /\ prevPrice # 0
             THEN <<DecDiv(currPrice - prevPrice, prevPrice)>>
                    \o Returns(symbol, history, i + 1)
             ELSE Returns(symbol, history, i + 1)

\* calculateVolatility: the population standard deviation of the returns
\* (squares are kept to the model's places).
calculateVolatility(symbol, pf) ==
    IF Len(pf.TradeHistory) < 2 THEN 0
    ELSE LET returns == Returns(symbol, pf.TradeHistory, 2) IN
         IF Len(returns) = 0 THEN 0
         ELSE LET n == NewFromInt(Len(returns))
                  mean == DecDiv(SumSeq(returns), n)
                  squares == [k \in 1..Len(returns) |->
                                 DecMul(returns[k] - mean, returns[k] - mean)]
                  variance == DecDiv(SumSeq(squares), n)
              IN  IF variance > 0 THEN DecSqrt(variance) ELSE 0

\* calculateBeta: decimal.NewFromFloat(1.0).
calculateBeta(symbol, pf) == NewFromInt(1)

\* The *models.RiskMetrics CalculateRisk returns (its Volatility and Beta):
\* nil with an error, the zero value for a portfolio of zero TotalValue.
RiskMetrics(config, order, pf) ==
    IF CalculateRisk(config, order, pf) # Nil THEN Nil
    ELSE IF pf.TotalValue = 0 THEN [Volatility |-> 0, Beta |-> 0]
    ELSE [Volatility |-> calculateVolatility(order.Symbol, pf),
          Beta |-> calculateBeta(order.Symbol, pf)]

\* The longest trade history of a call.
MaxHistory == 3

\* Trade histories: two symbols, a zero price among the prices.
Histories ==
    UNION { [1..n -> [Symbol : {"AAPL", "MSFT"},
                      Price : {0, NewFromInt(100), NewFromInt(150)}]] : n \in 0..MaxHistory }

VolatilityCalls ==
    [fn : {"calculateVolatility"}, done : {FALSE}, result : {Nil},
     symbol : {"AAPL"},
     pf : [TradeHistory : Histories]]

MetricsCalls ==
    [fn : {"CalculateRisk"}, done : {FALSE}, err : {Nil}, metrics : {Nil},
     config : [MaxPositionSize : {200}, MaxPortfolioRisk : {150}],
     order : [Symbol : {"AAPL"}, Quantity : {1}, Price : {NewFromInt(10), NewFromInt(30)}],
     pf : [TotalValue : {0, NewFromInt(100)},
           TotalRisk : {0, 100},
           TradeHistory : { h \in Histories : Len(h) <= 2 }]]

MetricsInit ==
    NewTradingEngine(InitialCash) /\ call \in VolatilityCalls \cup MetricsCalls

CallCalculateVolatility ==
    /\ call.fn = "calculateVolatility" /\ ~call.done
    /\ call' = [call EXCEPT !.done = TRUE,
                            !.result = calculateVolatility(call.symbol, call.pf)]
    /\ UNCHANGED <<portfolio, strategies, marketData, orderQueue, tradeQueue, orders, mu,
                   running, stopChan, ctxDone, pc, opOrder, opTrade, tpTrade, sePending,
                   seOrder, opErr, panicked>>

CallRiskMetrics ==
    /\ call.fn = "CalculateRisk" /\ ~call.done
    /\ call' = [call EXCEPT !.done = TRUE,
                            !.err = CalculateRisk(call.config, call.order, call.pf),
                            !.metrics = RiskMetrics(call.config, call.order, call.pf)]
    /\ UNCHANGED <<portfolio, strategies, marketData, orderQueue, tradeQueue, orders, mu,
                   running, stopChan, ctxDone, pc, opOrder, opTrade, tpTrade, sePending,
                   seOrder, opErr, panicked>>

MetricsNext == CallCalculateVolatility \/ CallRiskMetrics

MetricsSpec == MetricsInit /\ [][MetricsNext]_vars

\* How many trades of a symbol a history holds.
TradesOf(symbol, history) ==
    Cardinality({ k \in 1..Len(history) : history[k].Symbol = symbol })

\* C26: calculateVolatility returns zero whenever the history holds fewer
\* than two trades of the symbol.
C26_VolatilityZeroUnderTwoTrades ==
    (call.fn = "calculateVolatility" /\ call.done
       /\ TradesOf(call.symbol, call.pf.TradeHistory) < 2) => call.result = 0

\* C26's case: the symbol's only trade is the last of three, after two
\* trades of another symbol at different prices, and the result is zero.
C26_Witness ==
    /\ call.fn = "calculateVolatility" /\ call.done
    /\ Len(call.pf.TradeHistory) = 3
    /\ call.pf.TradeHistory[1].Symbol = "MSFT" /\ call.pf.TradeHistory[1].Price = NewFromInt(100)
    /\ call.pf.TradeHistory[2].Symbol = "MSFT" /\ call.pf.TradeHistory[2].Price = NewFromInt(150)
    /\ call.pf.TradeHistory[3].Symbol = "AAPL" /\ call.pf.TradeHistory[3].Price = NewFromInt(100)
    /\ call.result = 0

\* C27: every CalculateRisk call that returns no error returns beta 1.0.
C27_BetaOne ==
    (call.fn = "CalculateRisk" /\ call.done /\ call.err = Nil) =>
        call.metrics.Beta = NewFromInt(1)

\* -------------------------------------------------------- order history
\* C28: every order processOrder is done with, filled or rejected, is in
\* OrderHistory, once.
C28_HistoryHoldsEveryProcessedOrder ==
    \A i \in 1..Len(orders) :
        Terminal(i) => Count(portfolio.OrderHistory, i) = 1

\* ------------------------------------------- MovingAverageStrategy
\* Decimal.IntPart: the integer part, truncated toward zero.
IntPart(d) == IF d < 0 THEN 0 - ((0 - d) \div DecUnit) ELSE d \div DecUnit

\* decimal.NewFromFloat(0.95), the share of cash a buy may use.
CashShare == 950

\* calculateOptimalQuantity (price is not zero).
calculateOptimalQuantity(config, price, pf) ==
    LET availableCash == DecMul(pf.Cash, CashShare)
        maxQuantity == IntPart(DecDiv(availableCash, price))
    IN  IF maxQuantity <= 0 THEN 0
        ELSE LET maxQuantityBySize == IntPart(DecDiv(config.MaxOrderSize, price))
             IN  IF maxQuantity > maxQuantityBySize THEN maxQuantityBySize
                 ELSE maxQuantity

\* Arguments of calculateOptimalQuantity: positive prices, whole and with
\* decimals; cash of which 95% is a whole number of thousandths.
QuantityCalls ==
    [fn : {"calculateOptimalQuantity"}, done : {FALSE}, result : {0},
     config : [MinOrderSize : {0}, MaxOrderSize : {NewFromInt(20), NewFromInt(40)}],
     price : {NewFromInt(1), NewFromInt(3), NewFromInt(10), 13334, NewFromInt(30),
              NewFromInt(150)},
     pf : [Cash : {0, NewFromInt(10), 10520, NewFromInt(20), NewFromInt(100),
                   NewFromInt(1000)},
           Positions : {EmptyMap}]]

QuantityInit == NewTradingEngine(InitialCash) /\ call \in QuantityCalls

CallCalculateOptimalQuantity ==
    /\ call.fn = "calculateOptimalQuantity" /\ ~call.done
    /\ call' = [call EXCEPT !.done = TRUE,
                            !.result = calculateOptimalQuantity(call.config, call.price,
                                                                call.pf)]
    /\ UNCHANGED <<portfolio, strategies, marketData, orderQueue, tradeQueue, orders, mu,
                   running, stopChan, ctxDone, pc, opOrder, opTrade, tpTrade, sePending,
                   seOrder, opErr, panicked>>

QuantitySpec == QuantityInit /\ [][CallCalculateOptimalQuantity]_vars

\* The buy a strategy proposes with the quantity of a call.
ProposedBuy(c) ==
    [Symbol |-> "AAPL", Side |-> OrderSideBuy, Quantity |-> c.result, Price |-> c.price]

\* C30: the quantity returned is not negative, its value at the price is
\* at most MaxOrderSize and at most 95% of cash, the buy of it fails
\* neither the OrderTooLarge nor the InsufficientFunds check, and it is
\* zero when 95% of cash is less than the price.
C30_QuantityWithinLimits ==
    (call.fn = "calculateOptimalQuantity" /\ call.done) =>
        /\ call.result >= 0
        /\ MulInt(call.price, call.result) <= call.config.MaxOrderSize
        /\ MulInt(call.price, call.result) <= DecMul(call.pf.Cash, CashShare)
        /\ call.result > 0 =>
              ValidateOrder(call.config, ProposedBuy(call), call.pf)
                 \notin {ErrOrderTooLarge, ErrInsufficientFunds}
        /\ DecMul(call.pf.Cash, CashShare) < call.price => call.result = 0

\* ------------------------------------ MovingAverageStrategy.Execute
\* The periods NewMovingAverageStrategy sets.
shortPeriod == 10
longPeriod == 30
signalPeriod == 9

\* The nil *models.AlgorithmResult.
NoResult ==
    [StrategyID |-> "", Symbol |-> "", Action |-> "", Quantity |-> 0, Price |-> 0,
     Confidence |-> 0]

getTradesForSymbol(symbol, trades) == SelectSeq(trades, LAMBDA t : t.Symbol = symbol)

\* calculateSMA: the mean price of the symbol's last `period` trades, zero
\* when there are fewer.
calculateSMA(symbol, period, pf) ==
    IF Len(pf.TradeHistory) < period THEN 0
    ELSE LET symbolTrades == getTradesForSymbol(symbol, pf.TradeHistory) IN
         IF Len(symbolTrades) < period THEN 0
         ELSE LET prices == [k \in 1..period |->
                                symbolTrades[Len(symbolTrades) - period + k].Price]
              IN  DecDiv(SumSeq(prices), NewFromInt(period))

calculateConfidence(shortMA, longMA, currentPrice, signalMA) ==
    LET maSpread == Abs(DecDiv(shortMA - longMA, longMA))
        priceSpread == Abs(DecDiv(currentPrice - signalMA, signalMA))
        confidence == DecDiv(maSpread + priceSpread, NewFromInt(2))
    IN  IF confidence > NewFromInt(1) THEN NewFromInt(1) ELSE confidence

\* analyzeSymbol as it would be if a symbol without enough trades for its
\* averages were bought on its first tick.
Analysis_BuysWithoutHistory(config, symbol, currentPrice, pf, shortMA, longMA, signalMA) ==
    LET quantity == calculateOptimalQuantity(config, currentPrice, pf) IN
    IF (shortMA = 0 \/ longMA = 0 \/ signalMA = 0) /\ quantity > 0
         /\ symbol \notin DOMAIN pf.Positions
    THEN [signal |-> [StrategyID |-> config.ID, Symbol |-> symbol, Action |-> "buy",
                      Quantity |-> quantity, Price |-> currentPrice,
                      Confidence |-> NewFromInt(1)],
          confidence |-> NewFromInt(1), err |-> Nil]
    ELSE [signal |-> NoResult, confidence |-> 0, err |-> ErrInvalidMarketData]

\* analyzeSymbol once the three averages are taken: the signal (NoResult:
\* nil), its confidence and the error. Of the AlgorithmResult the fields
\* the engine reads and the confidence are kept; CalculateRisk stands for
\* calculatePositionRisk.
Analysis(config, symbol, currentPrice, pf, shortMA, longMA, signalMA) ==
    LET hasPosition == symbol \in DOMAIN pf.Positions
        held == IF hasPosition THEN pf.Positions[symbol].Quantity ELSE 0
        buys == shortMA > longMA /\ currentPrice > signalMA
        sells == ~buys /\ shortMA < longMA /\ currentPrice < signalMA
        action == IF buys /\ (~hasPosition \/ held <= 0) THEN "buy"
                  ELSE IF sells /\ hasPosition /\ held > 0 THEN "sell"
                  ELSE ""
        quantity == IF action = "buy"
                    THEN calculateOptimalQuantity(config, currentPrice, pf)
                    ELSE IF action = "sell" THEN held ELSE 0
        confidence == IF action = "buy"
                      THEN calculateConfidence(shortMA, longMA, currentPrice, signalMA)
                      ELSE IF action = "sell"
                      THEN calculateConfidence(longMA, shortMA, signalMA, currentPrice)
                      ELSE 0
        order == [Symbol |-> symbol, Quantity |-> quantity, Price |-> currentPrice]
    IN  IF shortMA = 0 \/ longMA = 0 \/ signalMA = 0
        THEN [signal |-> NoResult, confidence |-> 0, err |-> ErrInvalidMarketData]
        ELSE IF action = "" \/ quantity <= 0
        THEN [signal |-> NoResult, confidence |-> 0, err |-> Nil]
        ELSE IF CalculateRisk(config, order, pf) # Nil
        THEN [signal |-> NoResult, confidence |-> 0,
              err |-> CalculateRisk(config, order, pf)]
        ELSE [signal |-> [StrategyID |-> config.ID, Symbol |-> symbol, Action |-> action,
                          Quantity |-> quantity, Price |-> currentPrice,
                          Confidence |-> confidence],
              confidence |-> confidence, err |-> Nil]

\* analyzeSymbol: the three averages, each taken once, and the analysis.
analyzeSymbol(config, symbol, currentPrice, pf) ==
    CHOOSE a \in { Analysis(config, symbol, currentPrice, pf, shortMA, longMA, signalMA) :
                     shortMA \in {calculateSMA(symbol, shortPeriod, pf)},
                     longMA \in {calculateSMA(symbol, longPeriod, pf)},
                     signalMA \in {calculateSMA(symbol, signalPeriod, pf)} } : TRUE

\* Execute's loop as it would be if every signal of positive confidence
\* replaced the one before it.
RECURSIVE BestSignal_LastWins(_, _, _, _, _, _)
BestSignal_LastWins(config, pf, md, visit, bestSignal, maxConfidence) ==
    IF visit = <<>> THEN bestSignal
    ELSE LET a == analyzeSymbol(config, Head(visit), md[Head(visit)], pf) IN
         IF a.err = Nil /\ a.confidence > 0
         THEN BestSignal_LastWins(config, pf, md, Tail(visit), a.signal, a.confidence)
         ELSE BestSignal_LastWins(config, pf, md, Tail(visit), bestSignal, maxConfidence)

\* Execute's loop over the market data, in the order `visit` in which
\* range hands out the symbols.
RECURSIVE BestSignal(_, _, _, _, _, _)
BestSignal(config, pf, md, visit, bestSignal, maxConfidence) ==
    IF visit = <<>> THEN bestSignal
    ELSE LET a == analyzeSymbol(config, Head(visit), md[Head(visit)], pf) IN
         IF a.err = Nil /\ a.confidence > maxConfidence
         THEN BestSignal(config, pf, md, Tail(visit), a.signal, a.confidence)
         ELSE BestSignal(config, pf, md, Tail(visit), bestSignal, maxConfidence)

\* MovingAverageStrategy.Execute: << result, error >>.
Execute(config, pf, md, visit) ==
    IF ~config.Enabled THEN <<NoResult, ErrStrategyDisabled>>
    ELSE <<BestSignal(config, pf, md, visit, NoResult, 0), Nil>>

\* n trades of a symbol at one price.
Trades(symbol, n, price) == [k \in 1..n |-> [Symbol |-> symbol, Price |-> NewFromInt(price)]]

\* Trade histories: none; too short for the long average; a symbol's
\* price risen, or fallen, over its last ten trades; two symbols risen by
\* different amounts, and by the same amount; thirty trades and more of
\* which twenty-nine are the symbol's.
ExecuteHistories ==
    { <<>>,
      Trades("AAPL", 12, 10),
      Trades("AAPL", 19, 10) \o Trades("MSFT", 11, 10) \o Trades("AAPL", 10, 12),
      Trades("AAPL", 20, 10) \o Trades("AAPL", 10, 12),
      Trades("AAPL", 20, 12) \o Trades("AAPL", 10, 10),
      Trades("AAPL", 20, 10) \o Trades("MSFT", 20, 10)
         \o Trades("AAPL", 10, 12) \o Trades("MSFT", 10, 14),
      Trades("AAPL", 20, 10) \o Trades("MSFT", 20, 10)
         \o Trades("AAPL", 10, 12) \o Trades("MSFT", 10, 12) }

\* The market data of a call: none, or a price for some of the symbols.
ExecuteMarketData ==
    UNION { [syms -> {NewFromInt(9), NewFromInt(13), NewFromInt(15)}] :
               syms \in SUBSET {"AAPL", "MSFT"} }

ExecuteCalls ==
    { [fn |-> "MovingAverageStrategy.Execute", done |-> FALSE, result |-> NoResult, err |-> Nil,
       config |-> config, pf |-> pf, marketData |-> md, visit |-> visit] :
         config \in [ID : {"ma"}, Enabled : BOOLEAN, MaxOrderSize : {NewFromInt(40)},
                     MaxPositionSize : {10, 200}, MaxPortfolioRisk : {150}],
         pf \in [Cash : {NewFromInt(1000)}, TotalValue : {NewFromInt(1000)},
                 TotalRisk : {0},
                 Positions : {EmptyMap, [sym \in {"AAPL"} |-> [Quantity |-> 2]]},
                 TradeHistory : ExecuteHistories],
         md \in ExecuteMarketData,
         visit \in UNION { Orderings(syms) : syms \in SUBSET {"AAPL", "MSFT"} } }

CallExecute ==
    /\ call.fn = "MovingAverageStrategy.Execute" /\ ~call.done
    /\ Range(call.visit) = DOMAIN call.marketData
    /\ LET r == Execute(call.config, call.pf, call.marketData, call.visit)
       IN  call' = [call EXCEPT !.done = TRUE, !.result = r[1], !.err = r[2]]
    /\ UNCHANGED <<portfolio, strategies, marketData, orderQueue, tradeQueue, orders, mu,
                   running, stopChan, ctxDone, pc, opOrder, opTrade, tpTrade, sePending,
                   seOrder, opErr, panicked>>

\* The engine's side: a registry of an enabled and a disabled strategy,
\* polled turn by turn.
ExecuteInit ==
    /\ NewTradingEngine(InitialCash)
    /\ call \in { c \in ExecuteCalls : Range(c.visit) = DOMAIN c.marketData } \cup {NoCall}

\* No direct call is under way: the engine runs.
EngineRuns == call.fn # "MovingAverageStrategy.Execute"

ExecuteNext ==
    \/ CallExecute
    \/ EngineRuns /\ \E id \in {"s1", "off"} : AddStrategy(id)
    \/ EngineRuns /\ Start
    \/ EngineRuns /\ executeStrategies
    \/ EngineRuns /\ StrategyDisabled
    \/ EngineRuns /\ ExecuteFails
    \/ EngineRuns /\ ExecuteNil
    \/ EngineRuns /\ StrategySignal
    \/ EngineRuns /\ SendOrder

ExecuteSpec == ExecuteInit /\ [][ExecuteNext]_vars

\* The signals of positive confidence the symbols of a call yield.
Signals(c) ==
    { analyzeSymbol(c.config, sym, c.marketData[sym], c.pf).signal :
        sym \in { x \in DOMAIN c.marketData :
                    LET a == analyzeSymbol(c.config, x, c.marketData[x], c.pf)
                    IN  a.err = Nil /\ a.signal # NoResult /\ a.confidence > 0 } }

\* C29: Execute on a disabled strategy returns no signal and
\* ErrStrategyDisabled; on an enabled one it returns no error, no signal
\* when no symbol yields one of positive confidence (so for empty market
\* data) and otherwise a signal no other exceeds in confidence. The
\* polling stage calls Execute, and allocates orders, only for strategies
\* whose IsEnabled is true.
C29_ExecuteContract ==
    /\ (call.fn = "MovingAverageStrategy.Execute" /\ call.done) =>
          /\ ~call.config.Enabled => call.result = NoResult /\ call.err = ErrStrategyDisabled
          /\ call.config.Enabled =>
                /\ call.err = Nil
                /\ Signals(call) = {} => call.result = NoResult
                /\ Signals(call) # {} =>
                      /\ call.result \in Signals(call)
                      /\ \A sig \in Signals(call) : sig.Confidence <= call.result.Confidence
    /\ (call.fn = "Execute" /\ call.err # "not called") => IsEnabled(call.StrategyID)
    /\ \A i \in 1..Len(orders) : IsEnabled(orders[i].StrategyID)

\* C29's case: an enabled strategy, two symbols that both yield a signal,
\* the one of lower confidence visited last, and the other one returned.
C29_Witness ==
    /\ call.fn = "MovingAverageStrategy.Execute" /\ call.done
    /\ call.config.Enabled
    /\ Cardinality(Signals(call)) = 2
    /\ call.visit = <<"MSFT", "AAPL">>
    /\ call.result.Symbol = "MSFT"
    /\ \E sig \in Signals(call) : sig.Confidence < call.result.Confidence

\* ------------------------------------------------- the market simulator
\* Capacity of the simulator's updateChan (1000 in NewMarketSimulator).
UpdateChanCap == 2
\* The number of times priceGenerator's ticker fires in a run.
MaxRounds == 2

\* The symbols setupSymbols adds, with their base prices.
FeedSymbols == {"AAPL", "MSFT"}
BasePrice == [AAPL |-> NewFromInt(150), MSFT |-> NewFromInt(300)]

\* calculatePriceChange's priceChangePercent, which it clamps to +-0.1: the
\* two ends of the range.
PriceMoves == {-100, 100}

\* The SymbolData AddSymbol stores (the prices of it).
AddSymbol(basePrice) ==
    [CurrentPrice |-> basePrice, High |-> basePrice, Low |-> basePrice,
     Open |-> basePrice, Close |-> basePrice]

\* NewMarketSimulator followed by setupSymbols: nothing published, no
\* warning logged, the generators not started; `hand` is the tick
\* handleMarketUpdates has received and not yet handed to the engine.
NewMarketSimulator ==
    [fn |-> "MarketSimulator",
     symbols |-> [sym \in FeedSymbols |-> AddSymbol(BasePrice[sym])],
     running |-> FALSE, stopChan |-> "open",
     updateChan |-> <<>>, pending |-> <<>>, rounds |-> 0,
     warned |-> <<>>, hand |-> <<>>]

\* One turn of updatePrices' loop on a symbol's data: the new price and
\* the open, close, high and low that follow from it.
Repriced(data, percent) ==
    LET sum == data.CurrentPrice + DecMul(data.CurrentPrice, percent)
        newPrice == IF sum <= 0 THEN 10 ELSE sum
    IN  [CurrentPrice |-> newPrice, Open |-> data.CurrentPrice, Close |-> newPrice,
         High |-> IF newPrice > data.High THEN newPrice ELSE data.High,
         Low |-> IF newPrice < data.Low THEN newPrice ELSE data.Low]

\* The models.MarketData updatePrices builds for a symbol.
MarketDataOf(symbol, data) ==
    [Symbol |-> symbol, Price |-> data.CurrentPrice, High |-> data.High,
     Low |-> data.Low, Open |-> data.Open, Close |-> data.Close]

EngineUntouched ==
    UNCHANGED <<portfolio, strategies, marketData, orderQueue, tradeQueue, orders, mu,
                running, stopChan, ctxDone, pc, opOrder, opTrade, tpTrade, sePending,
                seOrder, opErr, panicked>>

\* MarketSimulator.Start: the generators are launched (main.go starts the
\* simulator once).
SimulatorStart ==
    /\ call.fn = "MarketSimulator"
    /\ ~call.running /\ call.stopChan = "open"
    /\ call' = [call EXCEPT !.running = TRUE]
    /\ EngineUntouched

\* MarketSimulator.Stop: closes stopChan; priceGenerator returns at its
\* next select.
SimulatorStop ==
    /\ call.fn = "MarketSimulator"
    /\ call.running /\ call.pending = <<>>
    /\ call' = [call EXCEPT !.running = FALSE, !.stopChan = "closed"]
    /\ EngineUntouched

\* priceGenerator's ticker fires: updatePrices locks the simulator and
\* starts its range over the symbols, in the order range visits the map.
updatePrices ==
    /\ call.fn = "MarketSimulator"
    /\ call.running /\ call.pending = <<>>
    /\ call.rounds < MaxRounds
    /\ \E visit \in Orderings(FeedSymbols) :
          call' = [call EXCEPT !.pending = visit, !.rounds = @ + 1]
    /\ EngineUntouched

\* One turn of updatePrices' loop as it would be with a plain send on
\* updateChan: it waits for room.
PublishTick_Blocking ==
    /\ call.fn = "MarketSimulator"
    /\ call.pending # <<>>
    /\ Len(call.updateChan) < UpdateChanCap
    /\ \E percent \in PriceMoves :
          LET symbol == Head(call.pending)
              data == Repriced(call.symbols[symbol], percent)
          IN  call' = [call EXCEPT !.symbols[symbol] = data,
                                   !.pending = Tail(@),
                                   !.updateChan = Append(@, MarketDataOf(symbol, data))]
    /\ EngineUntouched

\* One turn of updatePrices' loop: the symbol's price moves, and the tick is
\* sent on updateChan if it has room (select with default); if not, a
\* warning is logged and the tick is gone.
PublishTick ==
    /\ call.fn = "MarketSimulator"
    /\ call.pending # <<>>
    /\ \E percent \in PriceMoves :
          LET symbol == Head(call.pending)
              data == Repriced(call.symbols[symbol], percent)
          IN  IF Len(call.updateChan) < UpdateChanCap
              THEN call' = [call EXCEPT !.symbols[symbol] = data,
                                        !.pending = Tail(@),
                                        !.updateChan = Append(@, MarketDataOf(symbol, data))]
              ELSE call' = [call EXCEPT !.symbols[symbol] = data,
                                        !.pending = Tail(@),
                                        !.warned = Append(@, symbol)]
    /\ EngineUntouched

\* handleMarketUpdates' range over the update channel receives a tick.
handleMarketUpdates ==
    /\ call.fn = "MarketSimulator"
    /\ call.hand = <<>> /\ call.updateChan # <<>>
    /\ call' = [call EXCEPT !.hand = <<Head(call.updateChan)>>,
                            !.updateChan = Tail(@)]
    /\ EngineUntouched

\* handleMarketUpdates hands the tick to the engine: UpdateMarketData, under
\* the engine's lock.
FeedUpdateMarketData ==
    /\ call.fn = "MarketSimulator"
    /\ call.hand # <<>>
    /\ ~panicked /\ mu = "free"
    /\ marketData' = MapPut(marketData, call.hand[1].Symbol, call.hand[1].Price)
    /\ call' = [call EXCEPT !.hand = <<>>]
    /\ UNCHANGED <<portfolio, strategies, orderQueue, tradeQueue, orders, mu, running,
                   stopChan, ctxDone, pc, opOrder, opTrade, tpTrade, sePending, seOrder,
                   opErr, panicked>>

FeedInit == NewTradingEngine(InitialCash) /\ call = NewMarketSimulator

FeedNext ==
    \/ SimulatorStart
    \/ SimulatorStop
    \/ updatePrices
    \/ PublishTick
    \/ handleMarketUpdates
    \/ FeedUpdateMarketData
    \/ AddStrategy("s1")
    \/ Start
    \/ executeStrategies
    \/ StrategySignal
    \/ SendOrder
    \/ OrderReceive
    \/ processOrder
    \/ SendTrade

FeedSpec == FeedInit /\ [][FeedNext]_vars

\* A turn of updatePrices' loop is taken in this step.
Publishes == call.pending # <<>> /\ call'.pending = Tail(call.pending)

\* C31: publishing a tick never blocks the price generator (a turn of
\* updatePrices' loop can always be taken); a tick published to a full
\* update channel is dropped with a warning naming its symbol and the
\* channel's contents stay as they are, and a tick published to a channel
\* with room is appended without a warning; the channel never exceeds its
\* capacity. An order or a trade, by contrast, leaves its sender's hand
\* only by being appended to its queue.
C31_TickDropOnFull ==
    /\ [](call.pending # <<>> => ENABLED PublishTick)
    /\ [][/\ Len(call'.updateChan) <= UpdateChanCap
          /\ Publishes =>
                LET symbol == Head(call.pending)
                IN  IF Len(call.updateChan) = UpdateChanCap
                    THEN /\ call'.updateChan = call.updateChan
                         /\ call'.warned = Append(call.warned, symbol)
                    ELSE /\ Len(call'.updateChan) = Len(call.updateChan) + 1
                         /\ SubSeq(call'.updateChan, 1, Len(call.updateChan)) = call.updateChan
                         /\ call'.updateChan[Len(call'.updateChan)].Symbol = symbol
                         /\ call'.updateChan[Len(call'.updateChan)].Price
                              = call'.symbols[symbol].CurrentPrice
                         /\ call'.warned = call.warned
          /\ (seOrder # 0 /\ seOrder' = 0) => orderQueue' = Append(orderQueue, seOrder)
          /\ (opTrade # <<>> /\ opTrade' = <<>>) => tradeQueue' = Append(tradeQueue, opTrade[1])
         ]_vars

\* C31's case: a tick was dropped with a warning because the update
\* channel was full, the generator has finished its round, and the order
\* stage stands blocked at a full trade queue with its trade still in hand.
C31_Witness ==
    /\ call.warned # <<>> /\ call.pending = <<>>
    /\ Len(call.updateChan) = UpdateChanCap
    /\ opTrade # <<>> /\ Len(tradeQueue) = TradeQueueCap

\* ------------------------------------------------ the lock and the queue
\* The order stage stands in executeOrder's send on a full trade queue,
\* holding the lock, and the settlement stage stands in processTrade's
\* Lock with the trade it received: neither has a step to take, and the
\* queue's only reader is the settlement stage.
LockQueueDeadlock ==
    /\ pc["orderProcessor"] = "send" /\ mu = "orderProcessor"
    /\ Len(tradeQueue) = TradeQueueCap
    /\ pc["tradeProcessor"] = "lock" /\ tpTrade # <<>>

\* C32: the running pipeline never deadlocks: in no reachable state does
\* the order stage hold the exclusive lock, blocked pushing a trade onto a
\* full trade queue, while the settlement stage, a trade dequeued, waits
\* for that lock.
C32_NoLockQueueDeadlock == ~LockQueueDeadlock

\* ------------------------------------------- the sweep's division
\* The risk sweep can run: riskManager stands at its select and the lock
\* is free.
SweepCanRun == At("riskManager", "select") /\ mu = "free"

\* C33: the risk sweep never divides by a zero market value: whenever the
\* sweep can run, every position of positive quantity has a nonzero
\* MarketValue, also one a fill has just created and one whose symbol has
\* had no market tick; so the sweep never panics.
C33_SweepDivisorNonZero ==
    /\ SweepCanRun =>
          \A sym \in DOMAIN portfolio.Positions :
             portfolio.Positions[sym].Quantity > 0 =>
                portfolio.Positions[sym].MarketValue # 0
    /\ ~panicked

\* ----------------------------------------------- sequences of Start, Stop
\* A call of Stop returns (or panics) in this step.
StopCalled == call'.seq # call.seq /\ call'.fn = "Stop"

\* C34: any sequence of Start and Stop calls is safe: a Stop on an engine
\* that is not running changes nothing, and a Stop on a running engine
\* finds the stop signal open and closes it, so the signal is closed at
\* most once over the engine's life and no Stop panics closing a closed
\* signal.
C34_StopSafe ==
    [][StopCalled =>
          IF ~running
          THEN UNCHANGED <<portfolio, strategies, marketData, orderQueue, tradeQueue,
                           orders, mu, running, stopChan, ctxDone, pc, opOrder, opTrade,
                           tpTrade, sePending, seOrder, opErr, panicked>>
          ELSE stopChan = "open" /\ stopChan' = "closed" /\ ~panicked'
      ]_vars

\* A stage's goroutine is alive: launched and not returned.
Alive(stage) == pc[stage] \notin {"idle", "exited"}

\* C35: whenever the running flag is true, all five stages are alive: a
\* successful Start, also one made after a Stop, yields stages that run
\* until the next Stop, and the flag does not stay true once the stages
\* have returned because the Start context is done.
C35_RunningMeansAlive == (running /\ ~panicked) => \A stage \in Stages : Alive(stage)

\* --------------------------------------------------- trade accounting
\* The orders that have filled.
Filled == { i \in 1..Len(orders) : orders[i].Status = OrderStatusFilled }

\* C36: trade accounting is conserved: whenever no stage holds the
\* exclusive lock and the engine is not stopped, the number of filled
\* orders is the length of order history, and is the length of trade
\* history plus the trades in the trade queue plus the trade dequeued and
\* not yet appended; trade history never holds a trade of an order that is
\* not filled.
C36_TradeAccounting ==
    /\ (mu = "free" /\ ~StopSignalled) =>
          /\ Cardinality(Filled) = Len(portfolio.OrderHistory)
          /\ Cardinality(Filled) = Len(portfolio.TradeHistory) + Len(tradeQueue) + Len(tpTrade)
    /\ \A k \in 1..Len(portfolio.TradeHistory) :
          portfolio.TradeHistory[k].OrderID \in Filled

\* C36's case: trade history lags: two orders have filled and changed cash
\* and the position, the lock is free, one trade is settled, one waits in
\* the queue.
C36_Witness ==
    /\ mu = "free" /\ ~StopSignalled
    /\ Cardinality(Filled) = 2
    /\ portfolio.Cash # InitialCash /\ "AAPL" \in DOMAIN portfolio.Positions
    /\ Len(portfolio.TradeHistory) = 1 /\ Len(tradeQueue) = 1 /\ tpTrade = <<>>

\* ------------------------------------------------ the aggregate risk
\* An order's notional as a share of the portfolio's total value.
Share(order, pf) == DecDiv(MulInt(order.Price, order.Quantity), pf.TotalValue)

Queued(id) ==
    { i \in Range(orderQueue) \cup ({opOrder} \ {0}) :
         orders[i].StrategyID = id /\ orders[i].Status = OrderStatusPending }

\* RemoveStrategy, with `call` keeping what the caller could see: the id
\* removed and the orders of that strategy queued at that moment.
RemoveStrategyLogged(id) ==
    /\ ~panicked /\ mu = "free"
    /\ strategies' = strategies \ {id}
    /\ call' = [fn |-> "RemoveStrategy", StrategyID |-> id, queued |-> Queued(id)]
    /\ UNCHANGED <<portfolio, marketData, orderQueue, tradeQueue, orders, mu, running,
                   stopChan, ctxDone, pc, opOrder, opTrade, tpTrade, sePending, seOrder,
                   panicked, opErr>>

RemoveNext ==
    \/ AddStrategy("s1")
    \/ RemoveStrategyLogged("s1")
    \/ Start
    \/ executeStrategies
    \/ StrategySkip
    \/ StrategySignal
    \/ SendOrder
    \/ OrderReceive
    \/ processOrder
    \/ SendTrade
    \/ TradeReceive
    \/ processTrade

RemoveSpec == Init /\ [][RemoveNext]_vars

\* C38 as stated: an order queued before RemoveStrategy is never filled
\* after it.
C38_NeverFilledAfterRemove ==
    call.fn = "RemoveStrategy" =>
       \A i \in call.queued : orders[i].Status # OrderStatusFilled

\* C38: an order whose strategy id is not in the registry when
\* processOrder takes it ends rejected (strategy not found), and cash,
\* positions, both histories and the trade queue are unchanged; an order
\* fills only if its strategy is registered at that moment, so an order
\* queued before RemoveStrategy is not filled after it unless the id has
\* been registered again by then.
C38_UnregisteredRejected ==
    [][\A i \in 1..Len(orders) :
          /\ ((Fills(i) \/ Rejects(i)) /\ orders[i].StrategyID \notin strategies) =>
                /\ Rejects(i) /\ opErr' = ErrStrategyNotFound
                /\ UNCHANGED <<portfolio, tradeQueue, opTrade>>
          /\ Fills(i) => orders[i].StrategyID \in strategies
      ]_vars

\* C38's case: the strategy was removed with an order of its own queued,
\* it is still absent, and the order has been rejected for that, the
\* portfolio as it was.
C38_Witness ==
    /\ call.fn = "RemoveStrategy" /\ call.queued # {}
    /\ call.StrategyID \notin strategies
    /\ \E i \in call.queued : orders[i].Status = OrderStatusRejected
    /\ opErr = ErrStrategyNotFound
    /\ portfolio.Cash = InitialCash /\ portfolio.Positions = EmptyMap
    /\ portfolio.OrderHistory = <<>> /\ portfolio.TradeHistory = <<>> /\ tradeQueue = <<>>

\* ------------------------------------------------ orders from results
\* A strategy whose results carry other actions than "buy" and "sell".
ActionsNext ==
    \/ AddStrategy("s4")
    \/ Start
    \/ executeStrategies
    \/ StrategySignal
    \/ SendOrder
    \/ OrderReceive
    \/ processOrder
    \/ SendTrade
    \/ TradeReceive
    \/ processTrade

ActionsSpec == Init /\ [][ActionsNext]_vars

\* An order is allocated in this step.
Allocates == Len(orders') = Len(orders) + 1

\* C39: createOrderFromResult gives a buy order only for the action "buy"
\* and a sell order for any other action ("sell", "hold", the empty
\* string); the order copies the result's symbol, quantity, price and
\* strategy id, is a market order and is pending; and one order, no more,
\* is enqueued per result.
C39_OrderFromResult ==
    [][/\ Allocates =>
             \E result \in NextResults :
                LET order == orders'[Len(orders')]
                IN  /\ result.StrategyID = Head(sePending)
                    /\ order.Side = OrderSideBuy <=> result.Action = "buy"
                    /\ order.Side = OrderSideSell <=> result.Action # "buy"
                    /\ order.Symbol = result.Symbol /\ order.Quantity = result.Quantity
                    /\ order.Price = result.Price /\ order.StrategyID = result.StrategyID
                    /\ order.Type = OrderTypeMarket /\ order.Status = OrderStatusPending
                    /\ seOrder = 0 /\ seOrder' = Len(orders')
                    /\ SubSeq(orders', 1, Len(orders)) = orders
       /\ Len(orders') \in {Len(orders), Len(orders) + 1}
       /\ \A i \in 1..Len(orders) :
             Count(orderQueue', i) = Count(orderQueue, i) + (IF seOrder = i /\ seOrder' # i THEN 1 ELSE 0)
                                       - (IF opOrder # i /\ opOrder' = i THEN 1 ELSE 0)
       /\ \A i \in 1..Len(orders') : Count(orderQueue', i) <= 1
      ]_vars

\* C39's case: results of action "hold" and "" have become sell orders,
\* and the "hold" one has filled, selling one of the two units held.
C39_Witness ==
    /\ Len(orders) >= 3
    /\ orders[1].Side = OrderSideBuy /\ orders[1].Status = OrderStatusFilled
    /\ orders[2].Side = OrderSideSell /\ orders[2].Price = NewFromInt(11)
    /\ orders[2].Status = OrderStatusFilled
    /\ orders[3].Side = OrderSideSell /\ orders[3].Price = NewFromInt(12)
    /\ orders[3].Status = OrderStatusPending
    /\ "AAPL" \in DOMAIN portfolio.Positions /\ portfolio.Positions["AAPL"].Quantity = 1

\* ------------------------------- the engine under MovingAverageStrategy
\* The strategies registered are MovingAverageStrategy instances, built
\* from one StrategyConfig under two ids.
MovingAverageIDs == {"ma1", "ma2"}

movingAvgConfig(id) ==
    [ID |-> id, Enabled |-> TRUE, MaxOrderSize |-> NewFromInt(40),
     MaxPositionSize |-> 200, MaxPortfolioRisk |-> 150]

\* The ticks of the market feed.
MovingAveragePrices == {NewFromInt(9), NewFromInt(13), NewFromInt(15)}

\* One turn of executeStrategies' loop on a MovingAverageStrategy: Execute
\* on the engine's portfolio and market data, in some order of range over
\* the market data; a result goes to createOrderFromResult. `call` keeps
\* the turn's outcome.
MovingAverageTurn ==
    /\ At("strategyExecutor", "iter")
    /\ Head(sePending) \in MovingAverageIDs
    /\ \E visit \in Orderings(DOMAIN marketData) :
         \E out \in { Execute(movingAvgConfig(Head(sePending)), portfolio, marketData, visit) } :
            /\ call' = [fn |-> "Execute", StrategyID |-> Head(sePending), err |-> out[2],
                        result |-> out[1], marketData |-> marketData]
            /\ IF out[2] # Nil \/ out[1] = NoResult
               THEN /\ pc' = [pc EXCEPT !["strategyExecutor"] = LoopAt(Tail(sePending))]
                    /\ UNCHANGED <<orders, seOrder>>
               ELSE /\ orders' = Append(orders, createOrderFromResult(out[1], Head(sePending)))
                    /\ seOrder' = Len(orders) + 1
                    /\ pc' = [pc EXCEPT !["strategyExecutor"] = "send"]
    /\ sePending' = Tail(sePending)
    /\ UNCHANGED <<portfolio, strategies, marketData, orderQueue, tradeQueue, mu, running,
                   stopChan, ctxDone, opOrder, opTrade, tpTrade, panicked, opErr>>

MovingAverageNext ==
    \/ CallExecute
    \/ EngineRuns /\ \E id \in MovingAverageIDs : AddStrategy(id)
    \/ EngineRuns /\ \E sym \in {"AAPL", "MSFT"} :
                        \E price \in MovingAveragePrices : UpdateMarketData(sym, price)
    \/ EngineRuns /\ Start
    \/ EngineRuns /\ executeStrategies
    \/ EngineRuns /\ MovingAverageTurn
    \/ EngineRuns /\ updatePortfolio
    \/ EngineRuns /\ manageRisk

MovingAverageSpec == ExecuteInit /\ [][MovingAverageNext]_vars

\* C40: MovingAverageStrategy emits a signal for a symbol only when trade
\* history holds at least thirty trades of that symbol; so an engine that
\* starts from an empty trade history with only such strategies registered
\* never submits an order, whatever the market ticks, and trade history,
\* order history, positions and cash keep their initial values.
C40_NothingEverTrades ==
    /\ (call.fn = "MovingAverageStrategy.Execute" /\ call.done /\ call.result # NoResult) =>
          Len(getTradesForSymbol(call.result.Symbol, call.pf.TradeHistory)) >= longPeriod
    /\ (call.fn = "Execute") => call.result = NoResult
    /\ orders = <<>> /\ orderQueue = <<>> /\ seOrder = 0
    /\ portfolio.TradeHistory = <<>> /\ portfolio.OrderHistory = <<>>
    /\ portfolio.Positions = EmptyMap /\ portfolio.Cash = InitialCash

\* C40's case: both strategies are registered, both symbols have a tick,
\* a polling cycle has run Execute on the second strategy and come to its
\* end with nothing submitted.
C40_Witness ==
    /\ strategies = MovingAverageIDs
    /\ DOMAIN marketData = {"AAPL", "MSFT"}
    /\ call.fn = "Execute" /\ call.marketData = marketData
    /\ DOMAIN call.marketData = {"AAPL", "MSFT"}
    /\ sePending = <<>> /\ pc["strategyExecutor"] = "select"
    /\ orders = <<>>

====
